---- MODULE Spec2Model ----
(***************************************************************************)
(* Model of the Model-Agnostic-Context orchestrator                        *)
(* (src/src/lib/orchestrator/orchestrator.ts): the tool / resource /       *)
(* bridge registries, the per-request execution path (handleToolRequest,   *)
(* runTool, handleResourceRequest) and the two-phase prompt loop           *)
(* (executePrompt, discoveryPrompt, contextAwarePrompt).                   *)
(* The PolicyManager (src/src/lib/policy-manager/policyManager.ts) is      *)
(* modelled with its three maps and every method that writes them.         *)
(*                                                                         *)
(* The model stops where the source awaits a collaborator: the code        *)
(* between two such awaits is one action.  Collaborators (model adapter, tool   *)
(* and resource callbacks) are inputs chosen with \E when they settle.     *)
(* ActionLog.timeExecuted (Date.now()) is not modelled: no branch of the   *)
(* source reads it.                                                        *)
(***************************************************************************)
EXTENDS Integers, Sequences, FiniteSets, TLC

(***************************************************************************)
(* Bounds of the model                                                     *)
(***************************************************************************)
\* largest maxActionChainLength under which the model runs a prompt
MaxChain == 1
\* tool objects the registry specification creates
MaxToolObjs == 2
\* fixed-URI resource objects the registry specification creates
MaxResourceObjs == 2
\* resource template objects the registry specification creates
MaxTemplateObjs == 2

(***************************************************************************)
(* Program constants                                                       *)
(***************************************************************************)
DefaultMaxActionChainLength == 10
DefaultTimeout == 10000
CustomTimeout == 5

ErrorCode ==
  [ PolicyViolation |-> 100, InvalidRequest |-> 101, InvalidParams |-> 102,
    InternalError |-> 103, InsufficientTooling |-> 104, Timeout |-> 105,
    InvalidToolRequest |-> 106, InvalidToolResponse |-> 107,
    InvalidResourceRequest |-> 108, InvalidResourceResponse |-> 109,
    InvalidResponse |-> 110, BridgeMissing |-> 111,
    MaxActionChainLengthExceeded |-> 112 ]

\* exceptions: none, a MACError with its code and the gist of its message,
\* or another throwable (Error, TypeError, SyntaxError, a rejected adapter
\* promise)
NoException == [kind |-> "none", code |-> 0, message |-> ""]
MACError(code, message) == [kind |-> "MACError", code |-> code, message |-> message]
Error == [kind |-> "Error", code |-> 0, message |-> ""]
TypeError == [kind |-> "TypeError", code |-> 0, message |-> ""]
SyntaxError == [kind |-> "SyntaxError", code |-> 0, message |-> ""]
Rejection == [kind |-> "Rejection", code |-> 0, message |-> ""]

(***************************************************************************)
(* JavaScript values that cross the API: strings, plain objects (a set of  *)
(* <<key, type-of-value>> pairs), numbers, functions (identified by a      *)
(* number), booleans, null and undefined.                                  *)
(***************************************************************************)
V(t) == [t |-> t, str |-> "", fields |-> {}, num |-> 0, b |-> FALSE]
Undef == V("undefined")
Null == V("null")
Str(s) == [V("string") EXCEPT !.str = s]
Obj(f) == [V("object") EXCEPT !.fields = f]
Num(n) == [V("number") EXCEPT !.num = n]
Fn(n) == [V("function") EXCEPT !.num = n]
Bool(x) == [V("boolean") EXCEPT !.b = x]

\* JavaScript truthiness of a value
Truthy(v) ==
  CASE v.t = "undefined" -> FALSE
    [] v.t = "null" -> FALSE
    [] v.t = "string" -> v.str # ""
    [] v.t = "number" -> v.num # 0
    [] v.t = "boolean" -> v.b
    [] OTHER -> TRUE

\* z.object(shape).safeParse(value).success for a shape of required
\* primitive fields: every declared key is present with the declared type;
\* undeclared keys are stripped, not rejected
safeParse(schema, value) ==
  /\ value.t = "object"
  /\ \A kv \in schema.fields : kv \in value.fields

(***************************************************************************)
(* Names, URIs and fixtures                                                *)
(***************************************************************************)
ToolNames == {"echo", "calc", "ping"}
BridgeNames == {"Open-AI", "Backup", "Local"}
TemplateNames == {"byId", "byAny"}
\* a registered fixed URI, a URI whose serialisation differs from its
\* spelling, URIs that only templates match, and a string new URL() rejects
Uris == {"http://data/feed", "http://data", "http://data/", "http://tpl/1", "not a uri"}
NoKey == ""

InText == {<<"text", "string">>}
OutX == {<<"x", "number">>}
ArgHi == Obj({<<"text", "string">>})
ArgNum == Obj({<<"text", "number">>})
Arguments == {ArgHi, ArgNum}

\* what runTool puts in structuredContent when the callback throws
ErrorText == {<<"type", "string">>, <<"text", "string">>}

\* ToolResult / ReadResourceResult values
ToolResult(sc, e) == [structuredContent |-> sc, isError |-> e, content |-> Undef]
ReadResourceResult(uri) ==
  [structuredContent |-> Undef, isError |-> Undef, content |-> Obj({<<"uri", uri>>})]
\* ToolResult values a callback may resolve with
CallbackResults ==
  { ToolResult(Obj(OutX), Undef),                  \* {structuredContent: {x: 1}}
    ToolResult(Obj({<<"x", "string">>}), Bool(FALSE)), \* {x: "1"}, isError: false
    ToolResult(Undef, Undef),                      \* no structuredContent
    ToolResult(Obj(ErrorText), Bool(TRUE)) }       \* tool-reported error

(***************************************************************************)
(* State                                                                   *)
(***************************************************************************)
VARIABLES
  maxActionChainLength,        \* Orchestrator.maxActionChainLength
  registeredTools,             \* _registeredTools: name -> tool object (0: no key)
  toolObjs,                    \* the RegisteredTool objects ever created
  registeredResources,         \* _registeredResources: uri -> resource object
  resourceObjs,                \* the RegisteredResource objects ever created
  registeredResourceTemplates, \* _registeredResourceTemplates, in key order
  templateObjs,                \* the RegisteredResourceTemplate objects ever created
  registeredBridges,           \* _registeredBridges: name -> bridge instance
  bridgeKeys,                  \* Object.keys(_registeredBridges): insertion order
  currentBridge,               \* _currentBridge
  actionLogs,                  \* _actionLogs
  pc,                          \* per executePrompt call: where it is suspended
  request,                     \* per executePrompt call: the request being executed
  caught,                      \* per executePrompt call: what its catch block got
  sink,                        \* per executePrompt call: completionHandler invocations
  calls,                       \* per executePrompt call: callbacks invoked
  envelope,                    \* per executePrompt call: the last promptExecutor input
  systemPolicies,              \* PolicyManager.systemPolicies, in key order
  policies,                    \* PolicyManager.policies, in key order
  activePolicies,              \* PolicyManager.activePolicies, in key order
  lastCall                     \* the last synchronous API call and what it threw

regVars == <<registeredTools, toolObjs, registeredResources, resourceObjs,
             registeredResourceTemplates, templateObjs>>
bridgeVars == <<registeredBridges, bridgeKeys, currentBridge>>
promptVars == <<actionLogs, pc, request, caught, sink, calls, envelope>>
policyVars == <<systemPolicies, policies, activePolicies>>
vars == <<maxActionChainLength, regVars, bridgeVars, promptVars, policyVars, lastCall>>

\* the executePrompt calls the model distinguishes
Prompts == {1, 2}

Call(op, key, threw) == [op |-> op, key |-> key, threw |-> threw]

NoBridge == [name |-> NoKey, inst |-> 0]
Bridge(n, i) == [name |-> n, inst |-> i]
\* a ToolRequest / ReadResourceRequest as it appears in the model's JSON
NoRequest == [type |-> "none", name |-> NoKey, arguments |-> Undef, uri |-> NoKey]
ToolRequest(n, a) == [type |-> "Tool-Request", name |-> n, arguments |-> a, uri |-> NoKey]
ReadResourceRequest(u) ==
  [type |-> "Resource-Request", name |-> NoKey, arguments |-> Undef, uri |-> u]
\* the `request` parameter of the innermost contextAwarePrompt call of an
\* executePrompt call: depth counts the contextAwarePrompt calls so far,
\* kind and obj name the callback it invoked, hangs tells whether that
\* callback never settles, outcome how it settled
NoExecution == [req |-> NoRequest, depth |-> 0, kind |-> "none", obj |-> 0,
                hangs |-> FALSE, outcome |-> "none"]

(***************************************************************************)
(* Policies                                                                *)
(***************************************************************************)
\* a Policy: its name and its tags (description and rule are carried along
\* unread by every operation)
Policy(name, tags) == [name |-> name, tags |-> tags]
NoPolicy == Policy(NoKey, <<>>)

JSON_ONLY_POLICY == Policy("JSON Responses Only", <<"default", "system">>)
NO_DUPLICATE_REQUESTS == Policy("No Unnecessary Requests", <<"default", "system">>)
EMBED_CONTENT == Policy("Embed Content", <<"default", "system">>)
OBEY_SYSTEM_POLICIES == Policy("Priority System Policies", <<"default", "system">>)

\* a Map<string, Policy> keyed by the policy's name, in insertion order
MapHas(m, name) == \E i \in DOMAIN m : m[i].name = name
MapGet(m, name) ==
  IF MapHas(m, name) THEN m[CHOOSE i \in DOMAIN m : m[i].name = name] ELSE NoPolicy
MapSet(m, p) ==
  IF MapHas(m, p.name)
  THEN [i \in DOMAIN m |-> IF m[i].name = p.name THEN p ELSE m[i]]
  ELSE Append(m, p)
MapDelete(m, name) == SelectSeq(m, LAMBDA e : e.name # name)
MapKeys(m) == {m[i].name : i \in DOMAIN m}

\* setSystemPolicies
setSystemPolicies ==
  MapSet(MapSet(MapSet(MapSet(<<>>, JSON_ONLY_POLICY), NO_DUPLICATE_REQUESTS),
                EMBED_CONTENT), OBEY_SYSTEM_POLICIES)

\* Policy.toString and policiesToString
PolicyToString(p) == [Policy |-> p.name, Tags |-> p.tags]
policiesToString(ps) == [i \in DOMAIN ps |-> PolicyToString(ps[i])]

\* the input of a promptExecutor call, as far as policies and actions go
NoEnvelope == [round |-> "none", systemPolicies |-> <<>>, userPolicies |-> <<>>,
               actionsTaken |-> <<>>]

Init ==
  /\ maxActionChainLength = DefaultMaxActionChainLength
  /\ registeredTools = [n \in ToolNames |-> 0]
  /\ toolObjs = <<>>
  /\ registeredResources = [u \in Uris |-> 0]
  /\ resourceObjs = <<>>
  /\ registeredResourceTemplates = <<>>
  /\ templateObjs = <<>>
  /\ registeredBridges = [n \in BridgeNames |-> NoBridge]
  /\ bridgeKeys = <<>>
  /\ currentBridge = NoBridge
  /\ actionLogs = <<>>
  /\ pc = [p \in Prompts |-> "idle"]
  /\ request = [p \in Prompts |-> NoExecution]
  /\ caught = [p \in Prompts |-> NoException]
  /\ sink = [p \in Prompts |-> <<>>]
  /\ calls = [p \in Prompts |-> <<>>]
  /\ envelope = [p \in Prompts |-> NoEnvelope]
  /\ systemPolicies = setSystemPolicies
  /\ policies = <<>>
  /\ activePolicies = <<>>
  /\ lastCall = Call("new", NoKey, NoException)

(***************************************************************************)
(* Bridges                                                                 *)
(***************************************************************************)
registerBridge(bridge) ==
  IF registeredBridges[bridge.name] # NoBridge
  THEN /\ lastCall' = Call("registerBridge", bridge.name, Error)
       /\ UNCHANGED <<maxActionChainLength, policyVars, regVars, bridgeVars, promptVars>>
  ELSE /\ registeredBridges' = [registeredBridges EXCEPT ![bridge.name] = bridge]
       /\ bridgeKeys' = Append(bridgeKeys, bridge.name)
       /\ lastCall' = Call("registerBridge", bridge.name, NoException)
       /\ UNCHANGED <<maxActionChainLength, policyVars, regVars, currentBridge, promptVars>>

\* set currentBridge(name)
setCurrentBridge(name) ==
  IF registeredBridges[name] = NoBridge
  THEN /\ lastCall' = Call("currentBridge", name, Error)
       /\ UNCHANGED <<maxActionChainLength, policyVars, regVars, bridgeVars, promptVars>>
  ELSE /\ currentBridge' = registeredBridges[name]
       /\ lastCall' = Call("currentBridge", name, NoException)
       /\ UNCHANGED <<maxActionChainLength, policyVars, regVars, registeredBridges,
                      bridgeKeys, promptVars>>

\* removeBridge as it would be if it left the current bridge alone
removeBridgeKeepsCurrent(name) ==
  IF registeredBridges[name] = NoBridge
  THEN /\ lastCall' = Call("removeBridge", name, Error)
       /\ UNCHANGED <<maxActionChainLength, policyVars, regVars, bridgeVars, promptVars>>
  ELSE /\ registeredBridges' = [registeredBridges EXCEPT ![name] = NoBridge]
       /\ bridgeKeys' = SelectSeq(bridgeKeys, LAMBDA k : k # name)
       /\ lastCall' = Call("removeBridge", name, NoException)
       /\ UNCHANGED <<maxActionChainLength, policyVars, regVars, currentBridge, promptVars>>

\* removeBridge(name): unset the current bridge when it is the one removed,
\* delete the key, then fall back to the first remaining key when more than
\* one key remains
removeBridge(name) ==
  IF registeredBridges[name] = NoBridge
  THEN /\ lastCall' = Call("removeBridge", name, Error)
       /\ UNCHANGED <<maxActionChainLength, policyVars, regVars, bridgeVars, promptVars>>
  ELSE LET unset == IF currentBridge.name = name THEN NoBridge ELSE currentBridge
           keys == SelectSeq(bridgeKeys, LAMBDA k : k # name)
           remaining == [registeredBridges EXCEPT ![name] = NoBridge]
       IN /\ registeredBridges' = remaining
          /\ bridgeKeys' = keys
          /\ currentBridge' = IF unset = NoBridge /\ Len(keys) > 1
                              THEN remaining[keys[1]] ELSE unset
          /\ lastCall' = Call("removeBridge", name, NoException)
          /\ UNCHANGED <<maxActionChainLength, policyVars, regVars, promptVars>>

(***************************************************************************)
(* PolicyManager                                                           *)
(***************************************************************************)
\* the policy maps while a method runs, and the exception it ends with
Pm == [policies |-> policies, activePolicies |-> activePolicies, threw |-> NoException]
PolicyError(message) == [kind |-> "Error", code |-> 0, message |-> message]

\* a method of the PolicyManager ran to its end or to its throw
PolicyManagerCall(op, key, pm) ==
  /\ policies' = pm.policies
  /\ activePolicies' = pm.activePolicies
  /\ lastCall' = Call(op, key, pm.threw)
  /\ UNCHANGED <<maxActionChainLength, systemPolicies, regVars, bridgeVars, promptVars>>

\* Sets.insersection(new Set(tags), new Set(p.tags)).size > 0
Intersects(tags, ptags) ==
  \E i \in DOMAIN tags : \E j \in DOMAIN ptags : tags[i] = ptags[j]

\* addPolicy as it would be without the look-up in the system policies
addPolicyToUnchecked(pm, p) ==
  IF MapHas(pm.policies, p.name)
  THEN [pm EXCEPT !.threw = PolicyError("already exists")]
  ELSE [pm EXCEPT !.policies = MapSet(@, p)]

addPolicyTo(pm, p) ==
  IF MapHas(pm.policies, p.name) \/ MapHas(systemPolicies, p.name)
  THEN [pm EXCEPT !.threw = PolicyError("already exists")]
  ELSE [pm EXCEPT !.policies = MapSet(@, p)]

\* activatePolicy as it would be without the already-active check
activatePolicyInUnchecked(pm, name) ==
  LET q == MapGet(pm.policies, name) IN
  IF q = NoPolicy
  THEN [pm EXCEPT !.threw = PolicyError("does not exist")]
  ELSE [pm EXCEPT !.activePolicies = MapSet(@, q)]

activatePolicyIn(pm, name) ==
  LET q == MapGet(pm.policies, name) IN
  IF MapHas(pm.activePolicies, name)
  THEN [pm EXCEPT !.threw = PolicyError("is already active")]
  ELSE IF q = NoPolicy
  THEN [pm EXCEPT !.threw = PolicyError("does not exist")]
  ELSE [pm EXCEPT !.activePolicies = MapSet(@, q)]

deactivatePolicyIn(pm, name) ==
  LET q == MapGet(pm.policies, name) IN
  IF ~MapHas(pm.activePolicies, name)
  THEN [pm EXCEPT !.threw = PolicyError("is not active")]
  ELSE IF q = NoPolicy
  THEN [pm EXCEPT !.threw = PolicyError("does not exist")]
  ELSE [pm EXCEPT !.activePolicies = MapDelete(@, q.name)]

\* forEach over a list with a callback that may throw: the first throw ends it
RECURSIVE addEach(_, _)
addEach(pm, ps) ==
  IF ps = <<>> \/ pm.threw # NoException THEN pm
  ELSE addEach(addPolicyTo(pm, Head(ps)), Tail(ps))
RECURSIVE activateEach(_, _)
activateEach(pm, names) ==
  IF names = <<>> \/ pm.threw # NoException THEN pm
  ELSE activateEach(activatePolicyIn(pm, Head(names)), Tail(names))
RECURSIVE deactivateEach(_, _)
deactivateEach(pm, names) ==
  IF names = <<>> \/ pm.threw # NoException THEN pm
  ELSE deactivateEach(deactivatePolicyIn(pm, Head(names)), Tail(names))
RECURSIVE removeEach(_, _)
removeEach(pm, names) ==
  IF names = <<>> THEN pm
  ELSE removeEach([pm EXCEPT !.policies = MapDelete(@, Head(names))], Tail(names))

\* the names of the entries of a map, in its order, that satisfy a test
NamesOf(m) == [i \in DOMAIN m |-> m[i].name]
TaggedNamesOf(m, tags) == NamesOf(SelectSeq(m, LAMBDA e : Intersects(tags, e.tags)))
\* Object.values of a Map: it has no own enumerable properties
ObjectValues(m) == <<>>

\* addPolicy as it would be if it set the entry whatever the maps hold
addPolicyOverwrites(p) ==
  PolicyManagerCall("addPolicy", p.name, [Pm EXCEPT !.policies = MapSet(@, p)])
addPolicy(p) == PolicyManagerCall("addPolicy", p.name, addPolicyTo(Pm, p))
addPolicies(ps) == PolicyManagerCall("addPolicies", NoKey, addEach(Pm, ps))
removePolicy(name) ==
  PolicyManagerCall("removePolicy", name, removeEach(Pm, <<name>>))
removePolicies(names) ==
  PolicyManagerCall("removePolicies", NoKey, removeEach(Pm, names))
clear ==
  PolicyManagerCall("clear", NoKey,
                    [Pm EXCEPT !.policies = <<>>, !.activePolicies = <<>>])
activatePolicy(name) ==
  PolicyManagerCall("activatePolicy", name, activatePolicyIn(Pm, name))
setActivePoliciesWithNames(names) ==
  PolicyManagerCall("setActivePoliciesWithNames", NoKey,
                    activateEach([Pm EXCEPT !.activePolicies = <<>>], names))
setActivePoliciesWithTags(tags) ==
  PolicyManagerCall("setActivePoliciesWithTags", NoKey,
                    activateEach([Pm EXCEPT !.activePolicies = <<>>],
                                 TaggedNamesOf(ObjectValues(policies), tags)))
activateAllPolicies ==
  PolicyManagerCall("activateAllPolicies", NoKey,
                    activateEach([Pm EXCEPT !.activePolicies = <<>>], NamesOf(policies)))
deactivatePolicy(name) ==
  PolicyManagerCall("deactivatePolicy", name, deactivatePolicyIn(Pm, name))
deactivatePoliciesWithNames(names) ==
  PolicyManagerCall("deactivatePoliciesWithNames", NoKey, deactivateEach(Pm, names))
deactivatePoliciesWithTags(tags) ==
  PolicyManagerCall("deactivatePoliciesWithTags", NoKey,
                    deactivateEach(Pm, TaggedNamesOf(policies, tags)))
deactivateAllPolicies ==
  PolicyManagerCall("deactivateAllPolicies", NoKey, [Pm EXCEPT !.activePolicies = <<>>])
\* activePolicies.forEach over the keys missing from policies:
\* deactivatePolicy, then activePolicies.delete
RECURSIVE refreshEach(_, _)
refreshEach(pm, names) ==
  IF names = <<>> \/ pm.threw # NoException THEN pm
  ELSE LET deactivated == deactivatePolicyIn(pm, Head(names)) IN
       IF deactivated.threw # NoException THEN deactivated
       ELSE refreshEach([deactivated EXCEPT !.activePolicies = MapDelete(@, Head(names))],
                        Tail(names))
refreshActivePolicies ==
  PolicyManagerCall("refreshActivePolicies", NoKey,
                    refreshEach(Pm, NamesOf(SelectSeq(activePolicies,
                                  LAMBDA e : ~MapHas(Pm.policies, e.name)))))

systemPoliciesToString == policiesToString(systemPolicies)
activePoliciesToString == policiesToString(activePolicies)

(***************************************************************************)
(* Tools                                                                   *)
(***************************************************************************)
\* _createRegisteredTool: the object literal; `name` is the closure
\* parameter the handle's update() compares against and deletes
createRegisteredTool(name, description, inputSchema, outputSchema, callback, timeout) ==
  [ name |-> name,
    description |-> description,
    inputSchema |-> inputSchema,
    responseSchema |-> outputSchema,
    callback |-> callback,
    timeout |-> IF timeout.t \in {"undefined", "null"} THEN DefaultTimeout ELSE timeout.num,
    enabled |-> TRUE ]

\* the positional-arity dispatch of registerTool(name, ...rest)
Shift(r) == IF Len(r) > 1 THEN Tail(r) ELSE r
Taken(r) == IF Len(r) > 1 THEN Head(r) ELSE Undef
registerToolArgs(rest) ==
  LET hasDescription == rest[1].t = "string"
      r0 == IF hasDescription THEN Tail(rest) ELSE rest
      r1 == Shift(r0)
      r2 == Shift(r1)
      r3 == Shift(r2)
  IN [ description |-> IF hasDescription THEN rest[1] ELSE Undef,
       paramsSchema |-> Taken(r0),
       responseSchema |-> Taken(r1),
       timeout |-> Taken(r2),
       callback |-> r3[1] ]

\* registerTool as it would be without the duplicate-name check
registerToolOverwrites(name, rest) ==
  LET a == registerToolArgs(rest)
      tool == createRegisteredTool(name, a.description, a.paramsSchema,
                                   a.responseSchema, a.callback, a.timeout)
  IN /\ toolObjs' = Append(toolObjs, tool)
     /\ registeredTools' = [registeredTools EXCEPT ![name] = Len(toolObjs) + 1]
     /\ lastCall' = Call("registerTool", name, NoException)
     /\ UNCHANGED <<maxActionChainLength, policyVars, registeredResources, resourceObjs,
                    registeredResourceTemplates, templateObjs,
                    bridgeVars, promptVars>>

registerTool(name, rest) ==
  IF registeredTools[name] # 0
  THEN /\ lastCall' = Call("registerTool", name, Error)
       /\ UNCHANGED <<maxActionChainLength, policyVars, regVars, bridgeVars, promptVars>>
  ELSE LET a == registerToolArgs(rest)
           tool == createRegisteredTool(name, a.description, a.paramsSchema,
                                        a.responseSchema, a.callback, a.timeout)
       IN /\ toolObjs' = Append(toolObjs, tool)
          /\ registeredTools' = [registeredTools EXCEPT ![name] = Len(toolObjs) + 1]
          /\ lastCall' = Call("registerTool", name, NoException)
          /\ UNCHANGED <<maxActionChainLength, policyVars, registeredResources, resourceObjs,
                         registeredResourceTemplates, templateObjs,
                         bridgeVars, promptVars>>

\* the `updates` argument of a tool handle's update(): absent keys are Undef
NoUpdates == [name |-> Undef, description |-> Undef, paramsSchema |-> Undef,
              outputSchema |-> Undef, callback |-> Undef, enabled |-> Undef,
              timeout |-> Undef]

\* RegisteredTool.update on tool object `id`
toolUpdateMap(id, updates) ==
  LET name == toolObjs[id].name IN
  IF updates.name.t # "undefined" /\ updates.name # Str(name)
  THEN LET deleted == [registeredTools EXCEPT ![name] = 0] IN
       IF Truthy(updates.name)
       THEN [deleted EXCEPT ![updates.name.str] = id]
       ELSE deleted
  ELSE registeredTools

\* update as it would be if the enabled flag could only be switched off
toolUpdateObjOneWay(id, updates) ==
  LET t0 == toolObjs[id]
      t1 == IF updates.description.t # "undefined"
            THEN [t0 EXCEPT !.description = updates.description] ELSE t0
      t2 == IF updates.paramsSchema.t # "undefined"
            THEN [t1 EXCEPT !.inputSchema = updates.paramsSchema] ELSE t1
      t3 == IF updates.callback.t # "undefined"
            THEN [t2 EXCEPT !.callback = updates.callback] ELSE t2
      t4 == IF updates.enabled.t # "undefined"
            THEN [t3 EXCEPT !.enabled = @ /\ updates.enabled.b] ELSE t3
      t5 == IF updates.timeout.t # "undefined"
            THEN [t4 EXCEPT !.timeout = updates.timeout.num] ELSE t4
  IN t5

toolUpdateObj(id, updates) ==
  LET t0 == toolObjs[id]
      t1 == IF updates.description.t # "undefined"
            THEN [t0 EXCEPT !.description = updates.description] ELSE t0
      t2 == IF updates.paramsSchema.t # "undefined"
            THEN [t1 EXCEPT !.inputSchema = updates.paramsSchema] ELSE t1
      t3 == IF updates.callback.t # "undefined"
            THEN [t2 EXCEPT !.callback = updates.callback] ELSE t2
      t4 == IF updates.enabled.t # "undefined"
            THEN [t3 EXCEPT !.enabled = updates.enabled.b] ELSE t3
      t5 == IF updates.timeout.t # "undefined"
            THEN [t4 EXCEPT !.timeout = updates.timeout.num] ELSE t4
  IN t5

toolUpdate(id, updates, op) ==
  /\ id \in 1..Len(toolObjs)
  /\ registeredTools' = toolUpdateMap(id, updates)
  /\ toolObjs' = [toolObjs EXCEPT ![id] = toolUpdateObj(id, updates)]
  /\ lastCall' = Call(op, toolObjs[id].name, NoException)
  /\ UNCHANGED <<maxActionChainLength, policyVars, registeredResources, resourceObjs,
                 registeredResourceTemplates, templateObjs, bridgeVars, promptVars>>

toolDisable(id) == toolUpdate(id, [NoUpdates EXCEPT !.enabled = Bool(FALSE)], "tool.disable")
toolEnable(id) == toolUpdate(id, [NoUpdates EXCEPT !.enabled = Bool(TRUE)], "tool.enable")
\* handle.update({name}) and handle.remove()
toolRename(id, name) == toolUpdate(id, [NoUpdates EXCEPT !.name = Str(name)], "tool.update")
toolRemove(id) == toolUpdate(id, [NoUpdates EXCEPT !.name = Null], "tool.remove")
\* removeTool(name): this._registeredTools[name].remove()
removeTool(name) ==
  IF registeredTools[name] = 0
  THEN /\ lastCall' = Call("removeTool", name, TypeError)
       /\ UNCHANGED <<maxActionChainLength, policyVars, regVars, bridgeVars, promptVars>>
  ELSE toolUpdate(registeredTools[name], [NoUpdates EXCEPT !.name = Null], "removeTool")

(***************************************************************************)
(* Resources and resource templates                                        *)
(***************************************************************************)
\* _registeredResourceTemplates is a JavaScript object: its keys keep their
\* insertion order, assigning an existing key keeps its place
TemplateKeys == {registeredResourceTemplates[i].key : i \in DOMAIN registeredResourceTemplates}
templateAt(key) ==
  IF key \in TemplateKeys
  THEN (CHOOSE i \in DOMAIN registeredResourceTemplates :
          registeredResourceTemplates[i].key = key)
  ELSE 0
templateDelete(m, key) == SelectSeq(m, LAMBDA e : e.key # key)
templateSet(m, key, id) ==
  IF \E i \in DOMAIN m : m[i].key = key
  THEN [i \in DOMAIN m |-> IF m[i].key = key THEN [key |-> key, id |-> id] ELSE m[i]]
  ELSE Append(m, [key |-> key, id |-> id])

\* a ResourceTemplate argument: an object wrapping the pattern
Template(pattern) == [V("object") EXCEPT !.str = pattern]

\* the optional metadata argument of registerResource(name, uriOrTemplate, ...rest)
registerResourceArgs(rest) ==
  LET hasMetadata == rest[1].t \in {"object", "null"}     \* typeof rest[0] === "object"
  IN [ metadata |-> IF hasMetadata THEN rest[1] ELSE Undef,
       callback |-> IF hasMetadata THEN rest[2] ELSE rest[1] ]

registerResource(name, uriOrTemplate, rest) ==
  LET a == registerResourceArgs(rest) IN
  IF uriOrTemplate.t = "string"
  THEN IF registeredResources[uriOrTemplate.str] # 0
       THEN /\ lastCall' = Call("registerResource", uriOrTemplate.str, Error)
            /\ UNCHANGED <<maxActionChainLength, policyVars, regVars, bridgeVars, promptVars>>
       ELSE /\ resourceObjs' = Append(resourceObjs,
                 [ name |-> name, uri |-> uriOrTemplate.str, metadata |-> a.metadata,
                   callback |-> a.callback, enabled |-> TRUE ])
            /\ registeredResources' =
                 [registeredResources EXCEPT ![uriOrTemplate.str] = Len(resourceObjs) + 1]
            /\ lastCall' = Call("registerResource", uriOrTemplate.str, NoException)
            /\ UNCHANGED <<maxActionChainLength, policyVars, registeredTools, toolObjs,
                           registeredResourceTemplates, templateObjs,
                           bridgeVars, promptVars>>
  ELSE IF name \in TemplateKeys
       THEN /\ lastCall' = Call("registerResourceTemplate", name, Error)
            /\ UNCHANGED <<maxActionChainLength, policyVars, regVars, bridgeVars, promptVars>>
       ELSE /\ templateObjs' = Append(templateObjs,
                 [ name |-> name, resourceTemplate |-> uriOrTemplate.str,
                   metadata |-> a.metadata, callback |-> a.callback, enabled |-> TRUE ])
            /\ registeredResourceTemplates' =
                 templateSet(registeredResourceTemplates, name, Len(templateObjs) + 1)
            /\ lastCall' = Call("registerResourceTemplate", name, NoException)
            /\ UNCHANGED <<maxActionChainLength, policyVars, registeredTools, toolObjs,
                           registeredResources, resourceObjs, bridgeVars, promptVars>>

\* the `updates` argument of a resource handle's update()
NoResourceUpdates == [uri |-> Undef, name |-> Undef, metadata |-> Undef,
                      callback |-> Undef, enabled |-> Undef]

\* RegisteredResource.update on resource object `id`: the registry key
resourceUpdateMap(id, updates) ==
  LET uri == resourceObjs[id].uri
      deleted == [registeredResources EXCEPT ![uri] = 0]
  IN IF updates.uri.t # "undefined" /\ updates.uri # Str(uri)
     THEN IF Truthy(updates.uri)
          THEN [deleted EXCEPT ![updates.uri.str] = id]
          ELSE deleted
     ELSE registeredResources

\* RegisteredResource.update on resource object `id`: the object's fields
resourceUpdateObj(id, updates) ==
  LET r0 == resourceObjs[id]
      r1 == IF updates.name.t # "undefined"
            THEN [r0 EXCEPT !.name = updates.name.str] ELSE r0
      r2 == IF updates.metadata.t # "undefined"
            THEN [r1 EXCEPT !.metadata = updates.metadata] ELSE r1
      r3 == IF updates.callback.t # "undefined"
            THEN [r2 EXCEPT !.callback = updates.callback] ELSE r2
      r4 == IF updates.enabled.t # "undefined"
            THEN [r3 EXCEPT !.enabled = updates.enabled.b] ELSE r3
  IN r4

resourceUpdate(id, updates, op) ==
     /\ id \in 1..Len(resourceObjs)
     /\ registeredResources' = resourceUpdateMap(id, updates)
     /\ resourceObjs' = [resourceObjs EXCEPT ![id] = resourceUpdateObj(id, updates)]
     /\ lastCall' = Call(op, resourceObjs[id].uri, NoException)
     /\ UNCHANGED <<maxActionChainLength, policyVars, registeredTools, toolObjs,
                    registeredResourceTemplates, templateObjs, bridgeVars, promptVars>>

resourceDisable(id) ==
  resourceUpdate(id, [NoResourceUpdates EXCEPT !.enabled = Bool(FALSE)], "resource.disable")
resourceEnable(id) ==
  resourceUpdate(id, [NoResourceUpdates EXCEPT !.enabled = Bool(TRUE)], "resource.enable")

\* the `updates` argument of a resource template handle's update()
NoTemplateUpdates == [name |-> Undef, template |-> Undef, metadata |-> Undef,
                      callback |-> Undef, enabled |-> Undef]

\* RegisteredResourceTemplate.update on template object `id`: the key
templateUpdateMap(id, updates) ==
  LET name == templateObjs[id].name
      deleted == templateDelete(registeredResourceTemplates, name)
  IN IF updates.name.t # "undefined" /\ updates.name # Str(name)
     THEN IF Truthy(updates.name)
          THEN templateSet(deleted, updates.name.str, id)
          ELSE deleted
     ELSE registeredResourceTemplates

\* RegisteredResourceTemplate.update on template object `id`: its fields
templateUpdateObj(id, updates) ==
  LET t0 == templateObjs[id]
      t1 == IF updates.template.t # "undefined"
            THEN [t0 EXCEPT !.resourceTemplate = updates.template.str] ELSE t0
      t2 == IF updates.metadata.t # "undefined"
            THEN [t1 EXCEPT !.metadata = updates.metadata] ELSE t1
      t3 == IF updates.callback.t # "undefined"
            THEN [t2 EXCEPT !.callback = updates.callback] ELSE t2
      t4 == IF updates.enabled.t # "undefined"
            THEN [t3 EXCEPT !.enabled = updates.enabled.b] ELSE t3
  IN t4

templateUpdate(id, updates, op) ==
     /\ id \in 1..Len(templateObjs)
     /\ registeredResourceTemplates' = templateUpdateMap(id, updates)
     /\ templateObjs' = [templateObjs EXCEPT ![id] = templateUpdateObj(id, updates)]
     /\ lastCall' = Call(op, templateObjs[id].name, NoException)
     /\ UNCHANGED <<maxActionChainLength, policyVars, registeredTools, toolObjs,
                    registeredResources, resourceObjs, bridgeVars, promptVars>>

templateDisable(id) ==
  templateUpdate(id, [NoTemplateUpdates EXCEPT !.enabled = Bool(FALSE)], "template.disable")
templateEnable(id) ==
  templateUpdate(id, [NoTemplateUpdates EXCEPT !.enabled = Bool(TRUE)], "template.enable")

(***************************************************************************)
(* Request execution: handleToolRequest, runTool, handleResourceRequest    *)
(***************************************************************************)
Throw(e) == [kind |-> "throw", error |-> e, result |-> ToolResult(Undef, Undef),
             obj |-> 0, via |-> "none", variables |-> Null]
Return(r) == [kind |-> "return", error |-> NoException, result |-> r,
              obj |-> 0, via |-> "none", variables |-> Null]
Invoke(via, id, vs) == [kind |-> "invoke", error |-> NoException,
                        result |-> ToolResult(Undef, Undef),
                        obj |-> id, via |-> via, variables |-> vs]

\* runTool as it would be without the input-schema validation
runToolUnvalidated(id, req) ==
  LET tool == toolObjs[id] IN
  IF Truthy(tool.inputSchema)
  THEN Invoke("tool", id, Null)
  ELSE Return(ToolResult(Obj(ErrorText), Bool(TRUE)))

\* runTool up to the callback invocation
runTool(id, req) ==
  LET tool == toolObjs[id] IN
  IF Truthy(tool.inputSchema)
  THEN IF ~safeParse(tool.inputSchema, req.arguments)
       THEN Throw(MACError(ErrorCode.InvalidParams, "Invalid arguments provided"))
       ELSE Invoke("tool", id, Null)
  ELSE Return(ToolResult(Obj(ErrorText), Bool(TRUE)))

\* runTool once the callback has settled: a throw or rejection becomes an
\* error-flagged result
runToolSettled(threw, result) ==
  IF threw THEN ToolResult(Obj(ErrorText), Bool(TRUE)) ELSE result

\* handleToolRequest as it would be without the enabled check
handleToolRequestIgnoresEnabled(req) ==
  LET id == registeredTools[req.name] IN
  IF id = 0
  THEN Throw(MACError(ErrorCode.InvalidToolRequest, "does not exist"))
  ELSE runTool(id, req)

\* handleToolRequest up to the await on runTool
handleToolRequest(req) ==
  LET id == registeredTools[req.name] IN
  IF id = 0
  THEN Throw(MACError(ErrorCode.InvalidToolRequest, "does not exist"))
  ELSE IF ~toolObjs[id].enabled
       THEN Throw(MACError(ErrorCode.InvalidParams, "is disabled"))
       ELSE runTool(id, req)

\* the continuation of handleToolRequest as it would be without the
\* output-schema validation
handleToolRequestThenUnvalidated(id, res) == Return(res)

\* handleToolRequest after runTool resolved with res.  The timer is
\* created only now, and Promise.race([timeoutPromise, toolResult]) has a
\* settled second entry, so res always wins and the timer is cleared.
handleToolRequestThen(id, res) ==
  LET tool == toolObjs[id] IN
  IF Truthy(tool.responseSchema)
  THEN IF ~Truthy(res.structuredContent)
       THEN Throw(MACError(ErrorCode.InvalidParams, "no structured content was provided"))
       ELSE IF ~safeParse(tool.responseSchema, res.structuredContent)
            THEN Throw(MACError(ErrorCode.InvalidParams, "Invalid structured content"))
            ELSE Return(res)
  ELSE Return(res)

\* new URL(s): rejects what is no URL; toString() is the serialised form
URLValid(s) == s # "not a uri"
URLToString(s) == IF s = "http://data" THEN "http://data/" ELSE s

\* UriTemplate.match(uri): the variable bindings, or null
PatById == "http://tpl/{id}"
PatAny == "{+any}"
UriTemplateMatch(pattern, uri) ==
  CASE pattern = PatById /\ uri = "http://tpl/1" -> Obj({<<"id", "1">>})
    [] pattern = PatAny -> Obj({<<"any", uri>>})
    [] OTHER -> Null

\* handleResourceRequest up to the callback invocation
handleResourceRequest(req) ==
  IF ~URLValid(req.uri)
  THEN Throw(TypeError)
  ELSE LET uri == URLToString(req.uri)
           id == registeredResources[uri]
           matching == { i \in DOMAIN registeredResourceTemplates :
                           Truthy(UriTemplateMatch(
                             templateObjs[registeredResourceTemplates[i].id].resourceTemplate,
                             uri)) }
       IN IF id # 0
          THEN IF ~resourceObjs[id].enabled
               THEN Throw(MACError(ErrorCode.InvalidParams, "is disabled"))
               ELSE Invoke("resource", id, Null)
          ELSE IF matching # {}
               THEN LET first == CHOOSE i \in matching : \A j \in matching : i <= j
                        tid == registeredResourceTemplates[first].id
                    IN Invoke("template", tid,
                              UriTemplateMatch(templateObjs[tid].resourceTemplate, uri))
               ELSE Throw(MACError(ErrorCode.InvalidParams, "not found"))

(***************************************************************************)
(* Model adapter responses                                                 *)
(***************************************************************************)
\* the JSON value the model wrote; kind tells a JSON object from text that
\* is no JSON ("garbage"), JSON that is no object ("array") and no text
JSON(error, resourceRequest, toolRequest, toolInvocationRequest, content, embedded) ==
  [ kind |-> "object", error |-> error, resourceRequest |-> resourceRequest,
    toolRequest |-> toolRequest, toolInvocationRequest |-> toolInvocationRequest,
    content |-> content, embeddedContentResponse |-> embedded ]
JEmpty == JSON(Undef, NoRequest, NoRequest, NoRequest, Undef, Undef)
JGarbage == [JEmpty EXCEPT !.kind = "garbage"]
JArray == [JEmpty EXCEPT !.kind = "array"]
JNoText == [JEmpty EXCEPT !.kind = "empty"]

\* the text of the message: an optional prefix, the JSON, an optional suffix
Text(open, json, close) == [open |-> open, json |-> json, close |-> close]
\* the markdown fences: three backticks, with and without the json tag
Fence == "[fence]"
FenceJson == "[fence]json"
Plain(json) == Text("", json, "")
Fenced(json) == Text(FenceJson, json, Fence)

\* extractValidJSON: trim, drop a leading markdown fence (with or without
\* the json tag) and a trailing fence
extractValidJSON(text) ==
  [ text EXCEPT !.open = IF @ \in {FenceJson, Fence} THEN "" ELSE @,
                !.close = IF @ = Fence THEN "" ELSE @ ]

\* is the string empty (falsy)?
EmptyString(text) == text.open = "" /\ text.close = "" /\ text.json.kind = "empty"
\* does JSON.parse throw a SyntaxError on the string?
JSONParseThrows(text) == text.open # "" \/ text.close # "" \/ text.json.kind \in {"garbage", "empty"}

\* what promptExecutor settles with: a rejection, or a MacOutput whose
\* message part does or does not satisfy LLMMessageSchema
Response(threw, error, message, text) ==
  [threw |-> threw, error |-> error, message |-> message, text |-> text]

\* lines 164-167 / 297-300: the value handed to the output schema; kind
\* "undefined" when there is nothing to parse, "throws" when JSON.parse throws
parsedResponse(res) ==
  IF ~res.message \/ EmptyString(res.text)
  THEN [JEmpty EXCEPT !.kind = "undefined"]
  ELSE LET responseJSONString == extractValidJSON(res.text) IN
       IF EmptyString(responseJSONString)
       THEN [JEmpty EXCEPT !.kind = "undefined"]
       ELSE IF JSONParseThrows(responseJSONString)
            THEN [JEmpty EXCEPT !.kind = "throws"]
            ELSE responseJSONString.json

Optional(v, t) == v.t \in {"undefined", "null", t}
\* MacDiscoveryOutputSchema.safeParse(...).success
MacDiscoveryOutputSchema(j) ==
  /\ j.kind = "object"
  /\ Optional(j.error, "object")
  /\ j.resourceRequest.type \in {"none", "Resource-Request"}
  /\ j.toolRequest.type \in {"none", "Tool-Request"}
\* LLMContextAwareOutputSchema.safeParse(...).success
LLMContextAwareOutputSchema(j) ==
  /\ j.kind = "object"
  /\ Optional(j.error, "string")
  /\ j.toolInvocationRequest.type \in {"none", "Tool-Request"}
  /\ Optional(j.content, "object")
  /\ Optional(j.embeddedContentResponse, "string")

(***************************************************************************)
(* The prompt loop: executePrompt, discoveryPrompt, contextAwarePrompt     *)
(***************************************************************************)
\* what completionHandler receives
Output(kind, code, content, embedded) ==
  [error |-> [kind |-> kind, code |-> code], content |-> content, embedded |-> embedded]
ErrorCodeOutput(code, content) == Output("code", code, content, FALSE)

\* the state of one executePrompt call, and its update
St(p) == [ pc |-> pc[p], request |-> request[p], caught |-> caught[p],
           logs |-> actionLogs, sink |-> sink[p], calls |-> calls[p],
           envelope |-> envelope[p] ]
Apply(p, st) ==
  /\ pc' = [pc EXCEPT ![p] = st.pc]
  /\ request' = [request EXCEPT ![p] = st.request]
  /\ caught' = [caught EXCEPT ![p] = st.caught]
  /\ actionLogs' = st.logs
  /\ sink' = [sink EXCEPT ![p] = st.sink]
  /\ calls' = [calls EXCEPT ![p] = st.calls]
  /\ envelope' = [envelope EXCEPT ![p] = st.envelope]

completionHandler(st, out) == [st EXCEPT !.sink = Append(@, out)]
\* the promise of executePrompt resolves
resolved(st) == [st EXCEPT !.pc = "done"]
\* executePrompt as it would be if it let the exception reach its caller
catchRethrows(st, e) == [st EXCEPT !.pc = "rejected", !.caught = e]
\* an exception reaches the catch block of executePrompt, which logs it
catch(st, e) == [st EXCEPT !.pc = "done", !.caught = e]
\* actionLogsToString: JSON.stringify of every entry
actionLogsToString(logs) ==
  [i \in DOMAIN logs |-> [ type |-> logs[i].type, name |-> logs[i].name,
                           arguments |-> logs[i].arguments,
                           response |-> logs[i].response, isError |-> logs[i].isError ]]
\* lines 128-151: the discovery envelope
discoveryPromptStructure ==
  [ round |-> "discovery", systemPolicies |-> systemPoliciesToString,
    userPolicies |-> activePoliciesToString, actionsTaken |-> <<>> ]
\* lines 256-284: the follow-up envelope
contextAwarePromptStructure(logs) ==
  [ round |-> "followUp", systemPolicies |-> systemPoliciesToString,
    userPolicies |-> activePoliciesToString, actionsTaken |-> actionLogsToString(logs) ]
\* lines 256-288: build the follow-up envelope and call promptExecutor
followUp(st) ==
  [st EXCEPT !.pc = "awaitFollowUp", !.envelope = contextAwarePromptStructure(st.logs)]

\* the tool branch as it would be without the push to the action log
toolRespondedUnlogged(st, id, toolResponse) ==
  IF Truthy(toolResponse.isError)
  THEN resolved(completionHandler(st,
         ErrorCodeOutput(ErrorCode.InvalidToolResponse, FALSE)))
  ELSE followUp(st)

\* lines 219-236, then 256-288
toolResponded(st, id, toolResponse) ==
  LET logged == [st EXCEPT !.logs = Append(@,
                   [ type |-> st.request.req.type, name |-> st.request.req.name,
                     arguments |-> st.request.req.arguments,
                     response |-> toolResponse, isError |-> toolResponse.isError,
                     obj |-> id ])]
  IN IF Truthy(toolResponse.isError)
     THEN resolved(completionHandler(logged,
            ErrorCodeOutput(ErrorCode.InvalidToolResponse, FALSE)))
     ELSE followUp(logged)

\* the rest of handleToolRequest and of the tool branch once runTool resolved
toolSettled(st, id, res) ==
  LET h == handleToolRequestThen(id, res) IN
  IF h.kind = "throw" THEN catch(st, h.error) ELSE toolResponded(st, id, h.result)

\* lines 242-253, then 256-288: the catch block does not return
resourceSettled(st, id, threw, result) ==
  IF threw
  THEN followUp(completionHandler(st,
         ErrorCodeOutput(ErrorCode.InvalidResourceResponse, FALSE)))
  ELSE followUp([st EXCEPT !.logs = Append(@,
         [ type |-> st.request.req.type, name |-> st.request.req.uri,
           arguments |-> Undef, response |-> result, isError |-> Bool(FALSE),
           obj |-> id ])])

\* a callback invocation as the collaborator sees it
Invocation(h, req, enabled, schema) ==
  [ via |-> h.via, obj |-> h.obj, enabled |-> enabled, schema |-> schema,
    arguments |-> req.arguments, uri |-> req.uri, variables |-> h.variables ]

\* the chain-length check as it would be if it never fired
chainLengthUnchecked(st) == FALSE
\* line 208: the check at the entry of contextAwarePrompt
chainLengthExceeded(st) == Len(st.logs) > maxActionChainLength

\* contextAwarePrompt from its entry to its first await on a collaborator
contextAwarePrompt(st0, req, hangs) ==
  LET st == [st0 EXCEPT !.request = [ req |-> req, depth |-> st0.request.depth + 1,
                                      kind |-> "none", obj |-> 0, hangs |-> FALSE,
                                      outcome |-> "none" ]]
  IN
  IF chainLengthExceeded(st)
  THEN catch(st, MACError(ErrorCode.MaxActionChainLengthExceeded,
                          "Maximum action chain length exceeded"))
  ELSE IF req.type = "Tool-Request"
       THEN LET h == handleToolRequest(req) IN
            CASE h.kind = "throw" -> catch(st, h.error)
              [] h.kind = "return" -> toolSettled(st, registeredTools[req.name], h.result)
              [] OTHER ->
                   [st EXCEPT !.pc = "awaitTool",
                              !.request.kind = h.via,
                              !.request.obj = h.obj,
                              !.request.hangs = hangs,
                              !.request.outcome = "pending",
                              !.calls = Append(@, Invocation(h, req,
                                          toolObjs[h.obj].enabled,
                                          toolObjs[h.obj].inputSchema))]
       ELSE LET h == handleResourceRequest(req) IN
            CASE h.kind = "throw" -> resourceSettled(st, 0, TRUE, ReadResourceResult(req.uri))
              [] OTHER ->
                   [st EXCEPT !.pc = "awaitResource",
                              !.request.kind = h.via,
                              !.request.obj = h.obj,
                              !.request.hangs = hangs,
                              !.request.outcome = "pending",
                              !.calls = Append(@, Invocation(h, req,
                                          IF h.via = "resource"
                                          THEN resourceObjs[h.obj].enabled
                                          ELSE templateObjs[h.obj].enabled,
                                          Undef))]

\* discoveryPrompt after promptExecutor settled, and what executePrompt
\* does with its return value
discoveryPrompt(st, res, hangs) ==
  IF res.threw THEN catch(st, Rejection)
  ELSE IF Truthy(res.error)
  THEN resolved(completionHandler(st, Output("adapter", 0, res.message, FALSE)))
  ELSE LET output == parsedResponse(res) IN
  IF output.kind = "throws" THEN catch(st, SyntaxError)
  ELSE IF ~MacDiscoveryOutputSchema(output)
  THEN resolved(completionHandler(st, Output("zod", 0, FALSE, FALSE)))
  ELSE IF Truthy(output.error)
  THEN resolved(completionHandler(st, Output("model", 0, FALSE, FALSE)))
  ELSE IF output.resourceRequest.type # "none"
  THEN contextAwarePrompt(st, output.resourceRequest, hangs)
  ELSE IF output.toolRequest.type # "none"
  THEN contextAwarePrompt(st, output.toolRequest, hangs)
  ELSE resolved(completionHandler(st, ErrorCodeOutput(ErrorCode.InvalidResponse, TRUE)))

\* contextAwarePrompt after the follow-up promptExecutor settled, as it
\* would be if it submitted the round again on an output that fails the schema
contextAwarePromptResponseReprompts(st, res, hangs) ==
  IF res.threw THEN catch(st, Rejection)
  ELSE IF Truthy(res.error)
  THEN resolved(completionHandler(st, Output("adapter", 0, res.message, FALSE)))
  ELSE LET output == parsedResponse(res) IN
  IF output.kind = "throws" THEN catch(st, SyntaxError)
  ELSE IF ~LLMContextAwareOutputSchema(output)
  THEN followUp(st)
  ELSE IF Truthy(output.error)
  THEN resolved(completionHandler(st, Output("model", 0, FALSE, FALSE)))
  ELSE IF output.toolInvocationRequest.type # "none"
  THEN contextAwarePrompt(st, output.toolInvocationRequest, hangs)
  ELSE IF Truthy(output.content) \/ Truthy(output.embeddedContentResponse)
  THEN resolved(completionHandler(st, Output("none", 0, Truthy(output.content),
                                             Truthy(output.embeddedContentResponse))))
  ELSE resolved(completionHandler(st, ErrorCodeOutput(ErrorCode.InvalidResponse, FALSE)))

\* contextAwarePrompt after the follow-up promptExecutor settled
contextAwarePromptResponse(st, res, hangs) ==
  IF res.threw THEN catch(st, Rejection)
  ELSE IF Truthy(res.error)
  THEN resolved(completionHandler(st, Output("adapter", 0, res.message, FALSE)))
  ELSE LET output == parsedResponse(res) IN
  IF output.kind = "throws" THEN catch(st, SyntaxError)
  ELSE IF ~LLMContextAwareOutputSchema(output)
  THEN resolved(completionHandler(st, Output("zod", 0, FALSE, FALSE)))
  ELSE IF Truthy(output.error)
  THEN resolved(completionHandler(st, Output("model", 0, FALSE, FALSE)))
  ELSE IF output.toolInvocationRequest.type # "none"
  THEN contextAwarePrompt(st, output.toolInvocationRequest, hangs)
  ELSE IF Truthy(output.content) \/ Truthy(output.embeddedContentResponse)
  THEN resolved(completionHandler(st, Output("none", 0, Truthy(output.content),
                                             Truthy(output.embeddedContentResponse))))
  ELSE resolved(completionHandler(st, ErrorCodeOutput(ErrorCode.InvalidResponse, FALSE)))

InFlight == {"awaitDiscovery", "awaitTool", "awaitResource", "awaitFollowUp"}

\* executePrompt as it would be without the clearActionLogs call
executePromptKeepsLogs(p, targetBridge) ==
  LET bridge == registeredBridges[targetBridge]
      kept == [ pc |-> "rejected", request |-> NoExecution, caught |-> NoException,
                logs |-> actionLogs, sink |-> <<>>, calls |-> <<>>,
                envelope |-> NoEnvelope ]
  IN /\ pc[p] \notin InFlight
     /\ IF bridge = NoBridge
        THEN /\ Apply(p, kept)
             /\ lastCall' = Call("executePrompt", targetBridge,
                                  MACError(ErrorCode.BridgeMissing,
                                           "no registered bridge has been selected"))
        ELSE /\ Apply(p, [kept EXCEPT !.pc = "awaitDiscovery",
                                      !.envelope = discoveryPromptStructure])
             /\ lastCall' = Call("executePrompt", targetBridge, NoException)
     /\ UNCHANGED <<maxActionChainLength, policyVars, regVars, bridgeVars>>

\* executePrompt up to the await on promptExecutor inside discoveryPrompt
executePrompt(p, targetBridge) ==
  LET bridge == registeredBridges[targetBridge]
      cleared == [ pc |-> "rejected", request |-> NoExecution, caught |-> NoException,
                   logs |-> <<>>, sink |-> <<>>, calls |-> <<>>,
                   envelope |-> NoEnvelope ]
  IN /\ pc[p] \notin InFlight
     /\ IF bridge = NoBridge
        THEN /\ Apply(p, cleared)
             /\ lastCall' = Call("executePrompt", targetBridge,
                                  MACError(ErrorCode.BridgeMissing,
                                           "no registered bridge has been selected"))
        ELSE /\ Apply(p, [cleared EXCEPT !.pc = "awaitDiscovery",
                                         !.envelope = discoveryPromptStructure])
             /\ lastCall' = Call("executePrompt", targetBridge, NoException)
     /\ UNCHANGED <<maxActionChainLength, policyVars, regVars, bridgeVars>>

\* the pending callback resolved or threw
Settled(st, threw) ==
  [st EXCEPT !.request.outcome = IF threw THEN "threw" ELSE "returned"]

\* the discovery promptExecutor call settles
discoverySettles(p, res, hangs) ==
  /\ pc[p] = "awaitDiscovery"
  /\ Apply(p, discoveryPrompt(St(p), res, hangs))
  /\ UNCHANGED <<maxActionChainLength, policyVars, regVars, bridgeVars, lastCall>>

\* the pending tool callback settles
toolCallbackSettles(p, threw, result) ==
  /\ pc[p] = "awaitTool"
  /\ ~request[p].hangs
  /\ Apply(p, toolSettled(Settled(St(p), threw), request[p].obj,
                          runToolSettled(threw, result)))
  /\ UNCHANGED <<maxActionChainLength, policyVars, regVars, bridgeVars, lastCall>>

\* the pending resource (or resource template) callback settles
resourceCallbackSettles(p, threw, result) ==
  /\ pc[p] = "awaitResource"
  /\ ~request[p].hangs
  /\ Apply(p, resourceSettled(Settled(St(p), threw), request[p].obj, threw, result))
  /\ UNCHANGED <<maxActionChainLength, policyVars, regVars, bridgeVars, lastCall>>

\* a follow-up promptExecutor call settles
followUpSettles(p, res, hangs) ==
  /\ pc[p] = "awaitFollowUp"
  /\ Apply(p, contextAwarePromptResponse(St(p), res, hangs))
  /\ UNCHANGED <<maxActionChainLength, policyVars, regVars, bridgeVars, lastCall>>

\* the host assigns the public field maxActionChainLength
setMaxActionChainLength(n) ==
  /\ maxActionChainLength' = n
  /\ lastCall' = Call("maxActionChainLength", NoKey, NoException)
  /\ UNCHANGED <<regVars, bridgeVars, promptVars, policyVars>>

(***************************************************************************)
(* Inputs                                                                  *)
(***************************************************************************)
\* registerTool("echo", "Echo", {text}, cb); registerTool("calc", "Calc",
\* {text}, {x}, cb); registerTool("ping", cb)
ToolFixture(n) ==
  CASE n = "echo" -> <<Str("Echo"), Obj(InText), Fn(1)>>
    [] n = "calc" -> <<Str("Calc"), Obj(InText), Obj(OutX), Fn(2)>>
    [] OTHER -> <<Fn(3)>>

\* the order in which the host of the prompt specification registers them
ToolOrder == <<"echo", "calc", "ping">>

FixedUri == "http://data/feed"
RequestUris == {FixedUri, "http://tpl/1", "not a uri"}

ModelRequests == {ToolRequest(n, a) : n \in ToolNames, a \in Arguments}
ModelJSONs ==
  {JGarbage, JArray, JNoText, JEmpty}
  \cup {JSON(e, NoRequest, NoRequest, NoRequest, Undef, Undef) :
          e \in {Obj({<<"errorMessage", "string">>, <<"errorCode", "number">>}),
                 Str("cannot answer")}}
  \cup {JSON(Undef, NoRequest, r, NoRequest, Undef, Undef) : r \in ModelRequests}
  \cup {JSON(Undef, NoRequest, NoRequest, r, Undef, Undef) : r \in ModelRequests}
  \cup {JSON(Undef, ReadResourceRequest(u), NoRequest, NoRequest, Undef, Undef) :
          u \in RequestUris}
  \cup {JSON(Undef, NoRequest, NoRequest, NoRequest, Obj({<<"type", "text">>}), Undef),
        JSON(Undef, NoRequest, NoRequest, NoRequest, Undef, Str("rich text")),
        JSON(Str("cannot answer"), NoRequest, NoRequest, NoRequest,
             Obj({<<"type", "text">>}), Undef),
        JSON(Undef, NoRequest, NoRequest, ToolRequest("echo", ArgHi),
             Obj({<<"type", "text">>}), Undef),
        JSON(Obj({<<"errorMessage", "string">>, <<"errorCode", "number">>}),
             NoRequest, ToolRequest("echo", ArgHi), NoRequest, Undef, Undef),
        JSON(Undef, ReadResourceRequest(FixedUri), ToolRequest("echo", ArgHi),
             NoRequest, Undef, Undef),
        JSON(Undef, ReadResourceRequest(FixedUri), NoRequest, NoRequest,
             Obj({<<"type", "text">>}), Undef),
        JSON(Str("cannot answer"), NoRequest, NoRequest, ToolRequest("echo", ArgHi),
             Undef, Undef)}
FencedJSONs ==
  {JGarbage, JNoText,
   JSON(Undef, NoRequest, ToolRequest("echo", ArgHi), NoRequest, Undef, Undef),
   JSON(Undef, NoRequest, NoRequest, NoRequest, Obj({<<"type", "text">>}), Undef)}

AdapterResponses ==
  {Response(TRUE, Undef, FALSE, Plain(JNoText)),
   Response(FALSE, Str("rate limited"), TRUE, Plain(JNoText)),
   Response(FALSE, Undef, FALSE, Plain(JEmpty))}
  \cup {Response(FALSE, Undef, TRUE, Plain(j)) : j \in ModelJSONs}
  \cup {Response(FALSE, Undef, TRUE, Fenced(j)) : j \in FencedJSONs}
  \cup {Response(FALSE, Undef, TRUE, Text("Here is the JSON: ", JEmpty, ""))}

(***************************************************************************)
(* The specification: the host configures the orchestrator, then runs      *)
(* prompts one after the other on one registered bridge                    *)
(***************************************************************************)
Configuring == \A p \in Prompts : pc[p] = "idle"

Next ==
  \/ /\ Configuring
     /\ Len(toolObjs) < Len(ToolOrder)
     /\ registerTool(ToolOrder[Len(toolObjs) + 1], ToolFixture(ToolOrder[Len(toolObjs) + 1]))
  \/ Configuring /\ \E id \in 1..Len(toolObjs) : toolDisable(id)
  \/ Configuring /\ \E id \in 1..Len(toolObjs) : toolEnable(id)
  \/ Configuring /\ registerResource("feed", Str(FixedUri), <<Fn(4)>>)
  \/ Configuring /\ registerResource("byId", Template(PatById), <<Fn(5)>>)
  \/ Configuring /\ \E id \in 1..Len(resourceObjs) : resourceDisable(id)
  \/ Configuring /\ \E id \in 1..Len(resourceObjs) : resourceEnable(id)
  \/ Configuring /\ \E id \in 1..Len(templateObjs) : templateDisable(id)
  \/ Configuring /\ \E id \in 1..Len(templateObjs) : templateEnable(id)
  \/ Configuring /\ registerBridge(Bridge("Open-AI", 1))
  \/ Configuring /\ \E n \in 0..MaxChain : setMaxActionChainLength(n)
  \/ /\ maxActionChainLength <= MaxChain
     /\ \E b \in BridgeNames : executePrompt(1, b)
  \/ \E res \in AdapterResponses, hangs \in BOOLEAN : discoverySettles(1, res, hangs)
  \/ \E o \in CallbackResults, threw \in BOOLEAN : toolCallbackSettles(1, threw, o)
  \/ \E threw \in BOOLEAN :
       resourceCallbackSettles(1, threw, ReadResourceResult(request[1].req.uri))
  \/ \E res \in AdapterResponses, hangs \in BOOLEAN : followUpSettles(1, res, hangs)

Spec == Init /\ [][Next]_vars

(***************************************************************************)
(* The registry specification: the host's synchronous configuration calls, *)
(* no prompt running.  The tool registry, the resource registries and the  *)
(* bridge registry are separate maps that no operation of another one      *)
(* reads or writes, so a behaviour works on one of them.                   *)
(***************************************************************************)
ToolRests ==
  {ToolFixture(n) : n \in ToolNames}
  \cup {<<Str("Slow"), Obj(InText), Obj(OutX), Num(CustomTimeout), Fn(6)>>}
ResourceRests == {<<Fn(4)>>, <<Obj({<<"mimeType", "text">>}), Fn(7)>>}
RegisteredUris == {FixedUri, "http://data"}
BridgeInstances == {Bridge(n, i) : n \in BridgeNames, i \in 1..2}

\* the policies and the names the host uses
SystemName == JSON_ONLY_POLICY.name
PolicyNames == {"Tone", "Privacy", SystemName}
UserPolicies ==
  { Policy("Tone", <<"style">>), Policy("Tone", <<"safety">>),
    Policy("Privacy", <<"safety", "legal">>), Policy(SystemName, <<"style">>) }

NoTools == Len(toolObjs) = 0
NoResources == Len(resourceObjs) = 0 /\ Len(templateObjs) = 0
NoBridges == bridgeKeys = <<>> /\ \A n \in BridgeNames : registeredBridges[n] = NoBridge
NoPolicies == policies = <<>> /\ activePolicies = <<>>

NextRegistry ==
  \/ /\ NoResources /\ NoBridges
     /\ \E n \in ToolNames, rest \in ToolRests :
          /\ registeredTools[n] # 0 \/ Len(toolObjs) < MaxToolObjs
          /\ registerTool(n, rest)
  \/ \E id \in 1..Len(toolObjs) : toolDisable(id)
  \/ \E id \in 1..Len(toolObjs) : toolEnable(id)
  \/ /\ NoTools /\ NoBridges
     /\ \E u \in RegisteredUris, rest \in ResourceRests :
          /\ registeredResources[u] # 0 \/ Len(resourceObjs) < MaxResourceObjs
          /\ registerResource("feed", Str(u), rest)
  \/ /\ NoTools /\ NoBridges
     /\ \E n \in TemplateNames, pat \in {PatById, PatAny}, rest \in ResourceRests :
          /\ n \in TemplateKeys \/ Len(templateObjs) < MaxTemplateObjs
          /\ registerResource(n, Template(pat), rest)
  \/ \E id \in 1..Len(resourceObjs) : resourceDisable(id)
  \/ \E id \in 1..Len(resourceObjs) : resourceEnable(id)
  \/ \E id \in 1..Len(templateObjs) : templateDisable(id)
  \/ \E id \in 1..Len(templateObjs) : templateEnable(id)
  \/ NoTools /\ NoResources /\ \E b \in BridgeInstances : registerBridge(b)
  \/ NoTools /\ NoResources /\ \E n \in BridgeNames : setCurrentBridge(n)
  \/ NoTools /\ NoResources /\ \E n \in BridgeNames : removeBridge(n)

SpecRegistry == Init /\ [][NextRegistry]_vars

\* The host's handle and removal calls: the tools named in HandleNames are
\* registered with their fixtures and then renamed, disabled, enabled and
\* removed through their handles or by name; bridges and user policies are
\* registered and removed by name.
HandleNames == {"echo", "calc"}

NextHandles ==
  \/ /\ NoBridges /\ NoPolicies
     /\ \E n \in HandleNames :
          /\ registeredTools[n] # 0 \/ Len(toolObjs) < Cardinality(HandleNames)
          /\ registerTool(n, ToolFixture(n))
  \/ \E id \in 1..Len(toolObjs) : toolDisable(id)
  \/ \E id \in 1..Len(toolObjs) : toolEnable(id)
  \/ \E id \in 1..Len(toolObjs), n \in ToolNames : toolRename(id, n)
  \/ \E id \in 1..Len(toolObjs) : toolRemove(id)
  \/ NoBridges /\ NoPolicies /\ \E n \in ToolNames : removeTool(n)
  \/ NoTools /\ NoPolicies /\ \E b \in BridgeInstances : registerBridge(b)
  \/ NoTools /\ NoPolicies /\ \E n \in BridgeNames : removeBridge(n)
  \/ NoTools /\ NoBridges /\ \E q \in UserPolicies : addPolicy(q)
  \/ NoTools /\ NoBridges /\ \E n \in PolicyNames : removePolicy(n)

SpecHandles == Init /\ [][NextHandles]_vars

(***************************************************************************)
(* The policy specification: the host's PolicyManager calls, before and    *)
(* while one prompt runs on a registered bridge with one tool              *)
(***************************************************************************)
\* lists of names: one name, two names, a name twice, a name twice before
\* another name, an unregistered name before and after a registered one
NameLists ==
  { <<"Tone">>, <<"Tone", "Privacy">>, <<"Privacy", "Privacy">>,
    <<"Tone", "Tone", "Privacy">>,
    <<SystemName, "Tone">>, <<"Privacy", SystemName>> }
PolicyLists ==
  { <<Policy("Tone", <<"style">>), Policy("Privacy", <<"safety", "legal">>)>>,
    <<Policy("Privacy", <<"safety", "legal">>), Policy("Tone", <<"safety">>)>>,
    <<Policy("Tone", <<"safety">>), Policy("Tone", <<"style">>)>>,
    <<Policy(SystemName, <<"style">>), Policy("Privacy", <<"safety", "legal">>)>> }
TagLists == {<<"style">>, <<"safety">>, <<"legal", "style">>, <<"system">>}

\* what the model and the tool answer in this specification
ToolRequestJSON ==
  Response(FALSE, Undef, TRUE,
           Plain(JSON(Undef, NoRequest, ToolRequest("echo", ArgHi), NoRequest, Undef, Undef)))
ContentJSON ==
  Response(FALSE, Undef, TRUE,
           Plain(JSON(Undef, NoRequest, NoRequest, NoRequest, Obj({<<"type", "text">>}), Undef)))

NextPolicy ==
  \/ \E q \in UserPolicies : addPolicy(q)
  \/ \E ps \in PolicyLists : addPolicies(ps)
  \/ \E n \in PolicyNames : removePolicy(n)
  \/ \E ns \in NameLists : removePolicies(ns)
  \/ clear
  \/ \E n \in PolicyNames : activatePolicy(n)
  \/ \E ns \in NameLists : setActivePoliciesWithNames(ns)
  \/ \E ts \in TagLists : setActivePoliciesWithTags(ts)
  \/ activateAllPolicies
  \/ \E n \in PolicyNames : deactivatePolicy(n)
  \/ \E ns \in NameLists : deactivatePoliciesWithNames(ns)
  \/ \E ts \in TagLists : deactivatePoliciesWithTags(ts)
  \/ deactivateAllPolicies
  \/ refreshActivePolicies
  \/ NoBridges /\ registerBridge(Bridge("Open-AI", 1))
  \/ NoTools /\ registerTool("echo", ToolFixture("echo"))
  \/ executePrompt(1, "Open-AI")
  \/ discoverySettles(1, ToolRequestJSON, FALSE)
  \/ toolCallbackSettles(1, FALSE, ToolResult(Obj(OutX), Undef))
  \/ followUpSettles(1, ContentJSON, FALSE)

SpecPolicy == Init /\ [][NextPolicy]_vars

(***************************************************************************)
(* The concurrent specification: Orchestrator.instance is shared, and the  *)
(* host starts a prompt while another one is in flight.  One bridge, the   *)
(* echo tool, a model that requests echo and then answers.                 *)
(***************************************************************************)
NextConcurrent ==
  \/ NoBridges /\ registerBridge(Bridge("Open-AI", 1))
  \/ NoTools /\ registerTool("echo", ToolFixture("echo"))
  \/ \E p \in Prompts : executePrompt(p, "Open-AI")
  \/ \E p \in Prompts : discoverySettles(p, ToolRequestJSON, FALSE)
  \/ \E p \in Prompts : toolCallbackSettles(p, FALSE, ToolResult(Obj(OutX), Undef))
  \/ \E p \in Prompts : followUpSettles(p, ContentJSON, FALSE)

SpecConcurrent == Init /\ [][NextConcurrent]_vars

(***************************************************************************)
(* Properties                                                              *)
(***************************************************************************)
\* a step of executePrompt call p that a collaborator's settlement enables
Settles(p) ==
  \/ \E res \in AdapterResponses, hangs \in BOOLEAN : discoverySettles(p, res, hangs)
  \/ \E o \in CallbackResults, threw \in BOOLEAN : toolCallbackSettles(p, threw, o)
  \/ \E threw \in BOOLEAN :
       resourceCallbackSettles(p, threw, ReadResourceResult(request[p].req.uri))
  \/ \E res \in AdapterResponses, hangs \in BOOLEAN : followUpSettles(p, res, hangs)

\* in this step call p entered contextAwarePrompt with a tool request and
\* passed the chain-length check
ToolRequestIssued(p) ==
  /\ request'[p].depth = request[p].depth + 1
  /\ request'[p].req.type = "Tool-Request"
  /\ Len(actionLogs) <= maxActionChainLength
\* in this step call p invoked a callback
Invoked(p) == Len(calls'[p]) > Len(calls[p])
LastInvocation(p) == calls'[p][Len(calls'[p])]

\* C1: within one executePrompt call, completionHandler is invoked at most
\* once
C1_CompletionAtMostOnce == \A p \in Prompts : Len(sink[p]) <= 1

\* C2: an executePrompt call that has terminated has invoked
\* completionHandler
C2_TerminatedCallCompleted ==
  \A p \in Prompts : pc[p] = "done" => Len(sink[p]) >= 1

\* C3: with maxActionChainLength = N at most N callbacks are executed within
\* one prompt
C3_AtMostNCallbacks ==
  \A p \in Prompts : Len(calls[p]) <= maxActionChainLength

\* C4: a call waiting for a tool callback is never blocked: some step of it
\* (the callback settling or the timer firing) is possible
C4_ToolNeverBlocksPrompt ==
  \A p \in Prompts : pc[p] = "awaitTool" => ENABLED Settles(p)

\* C5: a tool callback is invoked only when the tool is enabled, and a
\* request for a disabled tool fails with the disabled error whatever its
\* arguments, without invoking the callback
C5_DisabledToolNeverExecutes ==
  [][\A p \in Prompts :
       /\ (Invoked(p) /\ LastInvocation(p).via = "tool")
            => toolObjs[LastInvocation(p).obj].enabled
       /\ ( /\ ToolRequestIssued(p)
            /\ registeredTools[request'[p].req.name] # 0
            /\ ~toolObjs[registeredTools[request'[p].req.name]].enabled )
            => /\ ~Invoked(p)
               /\ pc'[p] = "done"
               /\ caught'[p] = MACError(ErrorCode.InvalidParams, "is disabled")]_vars
C5_Witness ==
  \E p \in Prompts :
    /\ pc[p] = "done"
    /\ caught[p] = MACError(ErrorCode.InvalidParams, "is disabled")
    /\ request[p].req.arguments = ArgNum
    /\ calls[p] = <<>>

\* C6: the read callback of a disabled resource or resource template is
\* never invoked
C6_DisabledResourceNeverRead ==
  \A p \in Prompts : \A i \in DOMAIN calls[p] :
    calls[p][i].via \in {"resource", "template"} => calls[p][i].enabled

\* C7: a tool callback is invoked only with arguments that satisfy the
\* tool's input schema, and a request whose arguments do not satisfy it
\* fails with InvalidParams without invoking the callback
C7_ArgumentsValidatedBeforeCallback ==
  [][\A p \in Prompts :
       /\ (Invoked(p) /\ LastInvocation(p).via = "tool")
            => /\ Truthy(toolObjs[LastInvocation(p).obj].inputSchema)
               /\ safeParse(toolObjs[LastInvocation(p).obj].inputSchema,
                             LastInvocation(p).arguments)
       /\ ( /\ ToolRequestIssued(p)
            /\ registeredTools[request'[p].req.name] # 0
            /\ toolObjs[registeredTools[request'[p].req.name]].enabled
            /\ Truthy(toolObjs[registeredTools[request'[p].req.name]].inputSchema)
            /\ ~safeParse(toolObjs[registeredTools[request'[p].req.name]].inputSchema,
                          request'[p].req.arguments) )
            => /\ ~Invoked(p)
               /\ pc'[p] = "done"
               /\ caught'[p] = MACError(ErrorCode.InvalidParams,
                                        "Invalid arguments provided")]_vars
C7_Witness ==
  \E p \in Prompts :
    /\ pc[p] = "done"
    /\ caught[p] = MACError(ErrorCode.InvalidParams, "Invalid arguments provided")
    /\ request[p].depth = 2
    /\ Len(calls[p]) = 1

\* C8: no action-log entry that is not error-flagged holds a result of a
\* tool with an output schema whose structuredContent is missing or fails
\* that schema
C8_LoggedResultsSatisfyOutputSchema ==
  \A i \in DOMAIN actionLogs :
    ( /\ actionLogs[i].type = "Tool-Request"
      /\ ~Truthy(actionLogs[i].isError)
      /\ Truthy(toolObjs[actionLogs[i].obj].responseSchema) )
    => /\ Truthy(actionLogs[i].response.structuredContent)
       /\ safeParse(toolObjs[actionLogs[i].obj].responseSchema,
                     actionLogs[i].response.structuredContent)
C8_Witness ==
  \E i \in DOMAIN actionLogs :
    /\ actionLogs[i].type = "Tool-Request"
    /\ ~Truthy(actionLogs[i].isError)
    /\ Truthy(toolObjs[actionLogs[i].obj].responseSchema)

\* C9: once a tool callback has thrown, no exception has left the
\* execution and the last action-log entry is the error entry of that
\* request
C9_ThrownCallbackIsLogged ==
  \A p \in Prompts :
    (request[p].kind = "tool" /\ request[p].outcome = "threw")
    => /\ caught[p] = NoException
       /\ Len(actionLogs) > 0
       /\ Truthy(actionLogs[Len(actionLogs)].isError)
       /\ actionLogs[Len(actionLogs)].name = request[p].req.name

\* C10: a registration under an existing tool name, resource URI, template
\* name or bridge name throws and leaves the registry as it was
C10_DuplicateRegistrationRejected ==
  [][ /\ \A n \in ToolNames, rest \in ToolRests :
           (registeredTools[n] # 0 /\ registerTool(n, rest))
           => (lastCall'.threw = Error /\ UNCHANGED <<regVars, bridgeVars>>)
      /\ \A u \in RegisteredUris, rest \in ResourceRests :
           (registeredResources[u] # 0 /\ registerResource("feed", Str(u), rest))
           => (lastCall'.threw = Error /\ UNCHANGED <<regVars, bridgeVars>>)
      /\ \A n \in TemplateNames, pat \in {PatById, PatAny}, rest \in ResourceRests :
           (n \in TemplateKeys /\ registerResource(n, Template(pat), rest))
           => (lastCall'.threw = Error /\ UNCHANGED <<regVars, bridgeVars>>)
      /\ \A b \in BridgeInstances :
           (registeredBridges[b.name] # NoBridge /\ registerBridge(b))
           => (lastCall'.threw = Error /\ UNCHANGED <<regVars, bridgeVars>>) ]_vars
C10_Witness ==
  \E n \in ToolNames :
    /\ lastCall = Call("registerTool", n, Error)
    /\ registeredTools[n] # 0
    /\ ~toolObjs[registeredTools[n]].enabled
    /\ toolObjs[registeredTools[n]].timeout = CustomTimeout

\* the adapter answered with a message whose text JSON.parse rejects
Unparseable(res) ==
  /\ ~res.threw
  /\ ~Truthy(res.error)
  /\ parsedResponse(res).kind = "throws"
\* the adapter answered with a message that parses (or carries nothing to
\* parse) and that the round's output schema rejects
Invalid(res, round) ==
  /\ ~res.threw
  /\ ~Truthy(res.error)
  /\ parsedResponse(res).kind # "throws"
  /\ IF round = "discovery"
     THEN ~MacDiscoveryOutputSchema(parsedResponse(res))
     ELSE ~LLMContextAwareOutputSchema(parsedResponse(res))
\* the last entry of the action log is the error entry of call p's request
ErrorEntryLogged(p) ==
  /\ Len(actionLogs) > 0
  /\ Truthy(actionLogs[Len(actionLogs)].isError)
  /\ actionLogs[Len(actionLogs)].name = request[p].req.name

\* C11: when the discovery response text is not parseable JSON, the sink
\* receives exactly one error result with the InvalidResponse code, nothing
\* is executed and the action log stays empty
C11_UnparseableDiscoveryReported ==
  [][\A p \in Prompts, res \in AdapterResponses, hangs \in BOOLEAN :
       (Unparseable(res) /\ discoverySettles(p, res, hangs))
       => /\ Len(sink'[p]) = 1
          /\ sink'[p][1].error = [kind |-> "code", code |-> ErrorCode.InvalidResponse]
          /\ calls'[p] = <<>>
          /\ actionLogs' = <<>>]_vars

\* C12: when a tool with an output schema returned no structuredContent, the
\* execution failed with InvalidParams and the action log ends with the
\* error entry of that request
C12_MissingStructuredContentIsLogged ==
  \A p \in Prompts :
    caught[p] = MACError(ErrorCode.InvalidParams, "no structured content was provided")
    => ErrorEntryLogged(p)

\* C13: once an execution has finished, the action log holds one entry for
\* every execution the prompt attempted (every request that passed the
\* chain-length check)
C13_OneEntryPerAttempt ==
  \A p \in Prompts :
    ( /\ pc[p] \in {"done", "awaitFollowUp"}
      /\ caught[p].code # ErrorCode.MaxActionChainLengthExceeded )
    => Len(actionLogs) = request[p].depth

\* in this step an executePrompt call p started
Started(p) ==
  /\ pc[p] \notin InFlight
  /\ lastCall'.op = "executePrompt"
  /\ pc'[p] \in {"awaitDiscovery", "rejected"}
  /\ request'[p] = NoExecution

C15_ToolErrorTerminates ==
  [][\A p \in Prompts, threw \in BOOLEAN, o \in CallbackResults :
       ( /\ Truthy(runToolSettled(threw, o).isError)
         /\ toolCallbackSettles(p, threw, o) )
       => /\ pc'[p] = "done"
          /\ Len(actionLogs') = Len(actionLogs) + 1
          /\ Truthy(actionLogs'[Len(actionLogs')].isError)
          /\ sink'[p] = Append(sink[p], ErrorCodeOutput(ErrorCode.InvalidToolResponse, FALSE))
          /\ calls'[p] = calls[p]]_vars

\* C16: once the sink has received the InvalidResourceResponse error, the
\* prompt has terminated: no follow-up round is awaited
C16_ResourceFailureTerminates ==
  \A p \in Prompts :
    (\E i \in DOMAIN sink[p] :
        sink[p][i] = ErrorCodeOutput(ErrorCode.InvalidResourceResponse, FALSE))
    => pc[p] = "done"

\* the outcome st of handling a response ended call p with nothing executed
EndedWithoutExecution(p, st) ==
  /\ st.pc = "done"
  /\ st.calls = calls[p]
  /\ st.logs = actionLogs

C18_SystemPoliciesFixed ==
  /\ systemPolicies = <<JSON_ONLY_POLICY, NO_DUPLICATE_REQUESTS, EMBED_CONTENT,
                        OBEY_SYSTEM_POLICIES>>
  /\ \A i \in DOMAIN systemPolicies :
       /\ ~MapHas(policies, systemPolicies[i].name)
       /\ ~MapHas(activePolicies, systemPolicies[i].name)
  /\ \A p \in Prompts :
       envelope[p].round # "none"
       => envelope[p].systemPolicies =
            <<PolicyToString(JSON_ONLY_POLICY), PolicyToString(NO_DUPLICATE_REQUESTS),
              PolicyToString(EMBED_CONTENT), PolicyToString(OBEY_SYSTEM_POLICIES)>>
C18_Witness ==
  /\ lastCall = Call("addPolicy", SystemName, PolicyError("already exists"))
  /\ envelope[1].round = "followUp"
  /\ Len(envelope[1].userPolicies) = 2
  /\ Len(policies) = 0

\* C19: addPolicy with a name present in the user or the system policy set
\* throws and leaves the user, system and active sets unchanged
C19_DuplicatePolicyRejected ==
  [][\A q \in UserPolicies :
       ( /\ MapHas(policies, q.name) \/ MapHas(systemPolicies, q.name)
         /\ addPolicy(q) )
       => /\ lastCall'.threw = PolicyError("already exists")
          /\ UNCHANGED policyVars]_vars
C19_Witness ==
  /\ lastCall = Call("addPolicy", "Tone", PolicyError("already exists"))
  /\ MapGet(policies, "Tone") = Policy("Tone", <<"style">>)
  /\ MapGet(activePolicies, "Tone") = Policy("Tone", <<"safety">>)

\* C20: activatePolicy of an unknown or already active name, and
\* deactivatePolicy of an unknown or inactive name, throw and leave the
\* active set unchanged
C20_BadActivationRejected ==
  [][\A n \in PolicyNames :
       /\ ( /\ ~MapHas(policies, n) \/ MapHas(activePolicies, n)
            /\ activatePolicy(n) )
          => /\ lastCall'.threw.kind = "Error"
             /\ UNCHANGED policyVars
       /\ ( /\ ~MapHas(policies, n) \/ ~MapHas(activePolicies, n)
            /\ deactivatePolicy(n) )
          => /\ lastCall'.threw.kind = "Error"
             /\ UNCHANGED policyVars]_vars
C20_Witness ==
  /\ lastCall = Call("deactivatePolicy", "Tone", PolicyError("does not exist"))
  /\ MapHas(activePolicies, "Tone")
  /\ ~MapHas(policies, "Tone")

\* C21: setActivePoliciesWithTags(T) leaves active exactly the registered
\* user policies whose tags intersect T
C21_TagActivationExact ==
  [][\A ts \in TagLists :
       setActivePoliciesWithTags(ts)
       => {activePolicies'[i] : i \in DOMAIN activePolicies'}
            = {policies[i] : i \in {j \in DOMAIN policies : Intersects(ts, policies[j].tags)}}]_vars

\* C22: deactivatePoliciesWithTags(T) leaves no registered policy whose tags
\* intersect T active, and keeps every other active policy active
C22_TagDeactivationComplete ==
  [][\A ts \in TagLists :
       deactivatePoliciesWithTags(ts)
       => /\ \A i \in DOMAIN policies :
               Intersects(ts, policies[i].tags)
               => ~MapHas(activePolicies', policies[i].name)
          /\ \A i \in DOMAIN activePolicies :
               ~Intersects(ts, activePolicies[i].tags)
               => MapHas(activePolicies', activePolicies[i].name)]_vars

\* C23: refreshActivePolicies completes without error and leaves active
\* exactly the earlier active entries whose name is a registered user policy
C23_RefreshReconciles ==
  [][refreshActivePolicies
     => /\ lastCall'.threw = NoException
        /\ activePolicies' = SelectSeq(activePolicies,
                                       LAMBDA e : MapHas(policies, e.name))]_vars


\* C24: removePolicy, removeTool and removeBridge called with a name that is
\* not registered end with an exception to the caller and leave the tool
\* registry, the bridge registry and the policy maps as they were
C24_UnknownRemovalRaises ==
  [][/\ \A n \in ToolNames :
          registeredTools[n] = 0 /\ removeTool(n)
          => lastCall'.threw # NoException /\ UNCHANGED regVars
     /\ \A n \in BridgeNames :
          registeredBridges[n] = NoBridge /\ removeBridge(n)
          => lastCall'.threw # NoException /\ UNCHANGED bridgeVars
     /\ \A n \in PolicyNames :
          ~MapHas(policies, n) /\ removePolicy(n)
          => lastCall'.threw # NoException /\ UNCHANGED policyVars]_vars

\* the adapter's message is a JSON object, bare or inside markdown fences
CleanObject(res) ==
  /\ ~res.threw /\ ~Truthy(res.error) /\ res.message
  /\ extractValidJSON(res.text) = Plain(res.text.json)
  /\ res.text.json.kind = "object"
  /\ res.text.json.error = Undef
\* the discovery output asks for tool call req and for nothing else
RequestsTool(res, req) ==
  /\ CleanObject(res)
  /\ res.text.json.resourceRequest = NoRequest
  /\ res.text.json.toolRequest = req
\* the follow-up output carries final content and no request
FinalContent(res) ==
  /\ CleanObject(res)
  /\ res.text.json.toolInvocationRequest = NoRequest
  /\ res.text.json.content.t = "object"
  /\ res.text.json.embeddedContentResponse.t \in {"undefined", "string"}
\* the callback's result is no error and satisfies the tool's output schema
CallbackSucceeds(id, o) ==
  /\ ~Truthy(o.isError)
  /\ Truthy(toolObjs[id].responseSchema)
     => Truthy(o.structuredContent) /\ safeParse(toolObjs[id].responseSchema, o.structuredContent)

C26_SchemalessToolRuns ==
  pc[1] = "awaitDiscovery" =>
    \A req \in ModelRequests, res \in AdapterResponses :
      ( /\ RequestsTool(res, req)
        /\ registeredTools[req.name] # 0
        /\ toolObjs[registeredTools[req.name]].enabled
        /\ ~Truthy(toolObjs[registeredTools[req.name]].inputSchema) )
      => LET s1 == discoveryPrompt(St(1), res, FALSE)
         IN /\ s1.pc = "awaitTool"
            /\ Len(s1.calls) = 1
            /\ s1.calls[1].obj = registeredTools[req.name]
            /\ \A o \in CallbackResults :
                 LET s2 == toolSettled(Settled(s1, FALSE), s1.request.obj,
                                       runToolSettled(FALSE, o))
                 IN Len(s2.logs) = 1 => s2.logs[1].response = o

\* C27: a follow-up output that carries a tool request or a resource-read
\* request is taken up: contextAwarePrompt is entered again with that
\* request, one level deeper
C27_FollowUpRequestExecuted ==
  pc[1] = "awaitFollowUp" =>
    \A res \in AdapterResponses :
      LET j == res.text.json
          r == IF j.toolInvocationRequest # NoRequest
               THEN j.toolInvocationRequest ELSE j.resourceRequest
          s == contextAwarePromptResponse(St(1), res, FALSE)
      IN ( /\ CleanObject(res)
           /\ r # NoRequest
           /\ j.content = Undef /\ j.embeddedContentResponse = Undef )
         => /\ s.request.depth = request[1].depth + 1
            /\ s.request.req = r

\* C28: executePrompt called with a registered bridge does not throw, and
\* no exception raised while the prompt runs (a rejecting adapter, a JSON
\* parse error, a registry error, the chain-length error) rejects its
\* promise: the call ends in the catch block of executePrompt
C28_ExecutePromptNeverRejects ==
  [][\A p \in Prompts :
       /\ pc[p] \in InFlight => pc'[p] # "rejected"
       /\ \A b \in BridgeNames :
            registeredBridges[b] # NoBridge /\ executePrompt(p, b)
            => pc'[p] = "awaitDiscovery" /\ lastCall'.threw = NoException
       /\ caught'[p] # NoException => pc'[p] = "done"]_vars
\* the chain-length error was raised and caught
C28_Witness ==
  /\ pc[1] = "done"
  /\ caught[1] = MACError(ErrorCode.MaxActionChainLengthExceeded,
                          "Maximum action chain length exceeded")
  /\ lastCall.op = "executePrompt"
  /\ lastCall.threw = NoException

\* the handle's enable() applied to the state a step leads to gives back
\* the state the step started from
ToolEnableRestores(id) ==
  /\ toolUpdateMap(id, [NoUpdates EXCEPT !.enabled = Bool(TRUE)])' = registeredTools
  /\ [toolObjs EXCEPT
        ![id] = toolUpdateObj(id, [NoUpdates EXCEPT !.enabled = Bool(TRUE)])]' = toolObjs
ResourceEnableRestores(id) ==
  /\ resourceUpdateMap(id, [NoResourceUpdates EXCEPT !.enabled = Bool(TRUE)])'
       = registeredResources
  /\ [resourceObjs EXCEPT
        ![id] = resourceUpdateObj(id, [NoResourceUpdates EXCEPT !.enabled = Bool(TRUE)])]'
       = resourceObjs
TemplateEnableRestores(id) ==
  /\ templateUpdateMap(id, [NoTemplateUpdates EXCEPT !.enabled = Bool(TRUE)])'
       = registeredResourceTemplates
  /\ [templateObjs EXCEPT
        ![id] = templateUpdateObj(id, [NoTemplateUpdates EXCEPT !.enabled = Bool(TRUE)])]'
       = templateObjs

\* C29 as claimed: disable() followed by enable() on any tool, resource or
\* resource template handle leaves the registry as it was before disable()
C29_DisableEnableRestores ==
  [][/\ \A id \in 1..Len(toolObjs) : toolDisable(id) => ToolEnableRestores(id)
     /\ \A id \in 1..Len(resourceObjs) : resourceDisable(id) => ResourceEnableRestores(id)
     /\ \A id \in 1..Len(templateObjs) : templateDisable(id) => TemplateEnableRestores(id)]_vars

\* C29: disable() followed by enable() on a handle that was enabled leaves
\* the registry (the keys and every field of every registered object) as it
\* was before disable()
C29_DisableEnableRestoresEnabled ==
  [][/\ \A id \in 1..Len(toolObjs) :
          toolObjs[id].enabled /\ toolDisable(id) => ToolEnableRestores(id)
     /\ \A id \in 1..Len(resourceObjs) :
          resourceObjs[id].enabled /\ resourceDisable(id) => ResourceEnableRestores(id)
     /\ \A id \in 1..Len(templateObjs) :
          templateObjs[id].enabled /\ templateDisable(id) => TemplateEnableRestores(id)]_vars
\* disable() has acted on a tool handle
C29_Witness ==
  /\ lastCall.op = "tool.disable"
  /\ registeredTools[lastCall.key] # 0
  /\ ~toolObjs[registeredTools[lastCall.key]].enabled

\* C30: after update({name: n}) on the handle of a registered tool, whatever
\* renames the handle went through before, the tool object is registered
\* under n and under no other key, and it is the same object as before
C30_RenamedUnderNewestNameOnly ==
  [][\A id \in 1..Len(toolObjs), n \in ToolNames :
       (\E k \in ToolNames : registeredTools[k] = id) /\ toolRename(id, n)
       => /\ \A k \in ToolNames : registeredTools'[k] = id <=> k = n
          /\ toolObjs'[id] = toolObjs[id]]_vars

\* C31: after remove() on a tool handle, or removeTool of a key that holds
\* the tool, whatever enable, disable, update and rename calls came before,
\* the tool object is registered under no key: no request reaches its
\* callback and the catalog built from the registry does not list it
C31_RemovedToolDetached ==
  [][\A id \in 1..Len(toolObjs) :
       (toolRemove(id) \/ \E n \in ToolNames : registeredTools[n] = id /\ removeTool(n))
       => /\ \A k \in ToolNames : registeredTools'[k] # id
          /\ \A req \in ModelRequests : handleToolRequest(req)'.obj # id]_vars

\* the registered templates whose pattern matches uri, by object
MatchingTemplates(uri) ==
  { registeredResourceTemplates[i].id : i \in
      { j \in DOMAIN registeredResourceTemplates :
          Truthy(UriTemplateMatch(
            templateObjs[registeredResourceTemplates[j].id].resourceTemplate, uri)) } }

\* C32: a read request for a URI that a fixed resource is registered under
\* goes to that resource (its callback, or the disabled error) and never to
\* a template; for any other URI the template registered first among those
\* whose pattern matches is invoked with the variable bindings; when no
\* template matches the request fails as not found
C32_ExactUriThenTemplates ==
  \A u \in Uris \ {"not a uri"} :
    LET h == handleResourceRequest(ReadResourceRequest(u))
        matching == MatchingTemplates(URLToString(u))
    IN IF registeredResources[u] # 0
       THEN IF resourceObjs[registeredResources[u]].enabled
            THEN h = Invoke("resource", registeredResources[u], Null)
            ELSE h = Throw(MACError(ErrorCode.InvalidParams, "is disabled"))
       ELSE IF matching # {}
            THEN /\ h.kind = "invoke" /\ h.via = "template"
                 /\ h.obj \in matching
                 /\ \A id \in matching : h.obj <= id
                 /\ h.variables = UriTemplateMatch(templateObjs[h.obj].resourceTemplate,
                                                   URLToString(u))
            ELSE h = Throw(MACError(ErrorCode.InvalidParams, "not found"))

\* the adapter's message parses to a JSON object
ParsedObject(res) ==
  /\ ~res.threw /\ ~Truthy(res.error) /\ res.message
  /\ extractValidJSON(res.text) = Plain(res.text.json)
  /\ res.text.json.kind = "object"
\* call p as round `next` leaves it when the output carried an error:
\* nothing was executed and the sink's last output is an error
ResolvedAsError(p, next) ==
  /\ next.pc = "done"
  /\ next.calls = calls[p]
  /\ next.request = request[p]
  /\ next.logs = actionLogs
  /\ Len(next.sink) = Len(sink[p]) + 1
  /\ next.sink[Len(next.sink)].error.kind # "none"
\* call p as round `next` leaves it when the output carried request r and
\* no error: r was taken up and no content was delivered
ResolvedAsRequest(p, next, r) ==
  /\ next.request.depth = request[p].depth + 1
  /\ next.request.req = r
  /\ \A i \in DOMAIN next.sink : i > Len(sink[p]) => next.sink[i].error.kind # "none"

\* C33: an output with an error is resolved as an error whatever else it
\* carries; an output with a request (tool or resource) and no error is
\* resolved as that request, and its content is not delivered; in the
\* discovery round and in the follow-up round alike
C33_ErrorThenRequestThenContent ==
  \A res \in AdapterResponses :
    LET j == res.text.json IN
    /\ (pc[1] = "awaitDiscovery" /\ ParsedObject(res))
       => LET next == discoveryPrompt(St(1), res, FALSE)
              r == IF j.resourceRequest # NoRequest THEN j.resourceRequest ELSE j.toolRequest
          IN /\ j.error # Undef => ResolvedAsError(1, next)
             /\ (j.error = Undef /\ r # NoRequest) => ResolvedAsRequest(1, next, r)
    /\ (pc[1] = "awaitFollowUp" /\ ParsedObject(res))
       => LET next == contextAwarePromptResponse(St(1), res, FALSE)
              r == IF j.toolInvocationRequest # NoRequest
                   THEN j.toolInvocationRequest ELSE j.resourceRequest
          IN /\ j.error # Undef => ResolvedAsError(1, next)
             /\ (j.error = Undef /\ r # NoRequest) => ResolvedAsRequest(1, next, r)

\* C34: after setActivePoliciesWithNames(names) with every listed name
\* registered, the active policies are exactly the listed ones, whatever
\* was active before and also when a name is listed more than once
C34_SetActiveByNamesExact ==
  [][\A ns \in NameLists :
       (\A i \in DOMAIN ns : MapHas(policies, ns[i])) /\ setActivePoliciesWithNames(ns)
       => {activePolicies'[i] : i \in DOMAIN activePolicies'}
            = {MapGet(policies, ns[i]) : i \in DOMAIN ns}]_vars

\* C35: after removeBridge of the current bridge, a registered bridge is
\* current whenever a bridge is still registered, and none is current only
\* when no bridge is left
C35_FallbackWheneverBridgeRemains ==
  [][\A n \in BridgeNames :
       (registeredBridges[n] # NoBridge /\ currentBridge.name = n /\ removeBridge(n))
       => IF bridgeKeys' = <<>>
          THEN currentBridge' = NoBridge
          ELSE /\ currentBridge' # NoBridge
               /\ registeredBridges'[currentBridge'.name] = currentBridge']_vars

\* C36: after every registerBridge, set currentBridge and removeBridge call
\* the current bridge, when set, is a registered bridge, and setting the
\* current bridge to a name that is not registered throws and leaves the
\* current bridge and the registry as they were
C36_CurrentBridgeRegistered ==
  [][/\ currentBridge' # NoBridge
          => registeredBridges'[currentBridge'.name] = currentBridge'
     /\ \A n \in BridgeNames :
          (registeredBridges[n] = NoBridge /\ setCurrentBridge(n))
          => lastCall'.threw # NoException /\ UNCHANGED bridgeVars]_vars
\* a bridge that is not the current one was removed
C36_Witness ==
  /\ lastCall.op = "removeBridge"
  /\ lastCall.threw = NoException
  /\ currentBridge # NoBridge
  /\ currentBridge.name # lastCall.key
  /\ registeredBridges[currentBridge.name] = currentBridge

\* C37: no call replaces the tool registered under a key by another tool: a
\* key that holds a tool before and after a call holds the same tool, so
\* update({name: X}) on another handle leaves the tool under X in place
C37_NoToolReplacedUnderKey ==
  [][\A k \in ToolNames :
       (registeredTools[k] # 0 /\ registeredTools'[k] # 0)
       => registeredTools'[k] = registeredTools[k]]_vars

\* C40: every active policy is a registered user policy, and the
\* userPolicies of the envelope a prompt starts with lists registered
\* policies only
C40_ActiveSubsetOfRegistered ==
  /\ \A i \in DOMAIN activePolicies :
       MapGet(policies, activePolicies[i].name) = activePolicies[i]
  /\ ENABLED executePrompt(1, "Open-AI")
       => \A i \in DOMAIN activePolicies :
            \E j \in DOMAIN policies :
              discoveryPromptStructure.userPolicies[i] = PolicyToString(policies[j])

\* C39: a prompt that starts while another one is in flight leaves the
\* action log of that one as it is, and the actionsTaken of every follow-up
\* envelope lists the actions executed for its own prompt, one entry per
\* callback the prompt has run, with that call's arguments
C39_ConcurrentPromptsIsolated ==
  [][\A p \in Prompts :
       /\ \A q \in Prompts \ {p} :
            (pc[q] \in InFlight /\ Started(p)) => actionLogs' = actionLogs
       /\ (pc'[p] = "awaitFollowUp" /\ pc[p] # "awaitFollowUp")
          => /\ Len(envelope'[p].actionsTaken) = Len(calls'[p])
             /\ \A i \in DOMAIN calls'[p] :
                  envelope'[p].actionsTaken[i].arguments = calls'[p][i].arguments]_vars

\* the host configures the orchestrator (the tools, a fixed resource, a
\* template, the bridge, the chain length; the first tool and the resource
\* may be disabled) and runs prompts one after the other
NextSettling ==
  \/ /\ Configuring
     /\ Len(toolObjs) < Len(ToolOrder)
     /\ registerTool(ToolOrder[Len(toolObjs) + 1], ToolFixture(ToolOrder[Len(toolObjs) + 1]))
  \/ Configuring /\ Len(toolObjs) > 0 /\ toolDisable(1)
  \/ Configuring /\ registerResource("feed", Str(FixedUri), <<Fn(4)>>)
  \/ Configuring /\ registerResource("byId", Template(PatById), <<Fn(5)>>)
  \/ Configuring /\ Len(resourceObjs) > 0 /\ resourceDisable(1)
  \/ Configuring /\ registerBridge(Bridge("Open-AI", 1))
  \/ Configuring /\ \E n \in 0..MaxChain : setMaxActionChainLength(n)
  \/ /\ maxActionChainLength <= MaxChain
     /\ \E b \in BridgeNames : executePrompt(1, b)
  \/ Settles(1)

\* the collaborators of call 1 settle: an awaited adapter call or callback
\* that can settle eventually does
SpecSettling == Init /\ [][NextSettling]_vars /\ WF_vars(Settles(1))

====
